---- MODULE Spec2Model ----
(***************************************************************************)
(* Model of the pipeline step-placement engine ("pipeweld") of usethis:    *)
(* src/src/usethis/_pipeweld/func.py.                                      *)
(*                                                                         *)
(* Step names are numbered in alphabetical order: 1 = "A", 2 = "B", ...    *)
(* so that Python's string comparison (min, sorted) is integer comparison. *)
(* None (for `after`/`predecessor`) is the number 0.                       *)
(***************************************************************************)
EXTENDS Integers, Sequences, FiniteSets, TLC

(***************************************************************************)
(* Bounds of the model.                                                    *)
(***************************************************************************)
\* the largest number of steps in the caller-supplied pipeline
MaxSteps == 3
\* the largest number of containers below the top-level Series
MaxContainers == 2
\* the largest number of names in prerequisites, and in postrequisites
MaxReqs == 2
\* the largest number of add calls of a chain, each on the solution of the last
MaxCalls == 3
\* the largest number of steps in the default pipeline of a Bitbucket file
MaxFileSteps == 2

\* the names steps are drawn from: one more than the pipeline can hold, so
\* that the new step, and a requisite absent from the pipeline, always exist
Names == 1 .. (MaxSteps + 1)

NoStep == 0

(***************************************************************************)
(* Containers (usethis._pipeweld.containers): a step is a str, the root of *)
(* a Series is a list, the root of a Parallel is a frozenset.              *)
(***************************************************************************)
Atom(s) == [kind |-> "str", step |-> s]
Series(r) == [kind |-> "Series", root |-> r]
Parallel(r) == [kind |-> "Parallel", root |-> r, frozen |-> TRUE]
None == [kind |-> "None"]

\* series(*args) and parallel(*args)
series(items) == Series(items)
parallel(items) == Parallel(items)

IsStr(c) == c.kind = "str"
IsSeries(c) == c.kind = "Series"
IsParallel(c) == c.kind = "Parallel"

\* len(component) of a Series or a Parallel
len(c) == IF IsSeries(c) THEN Len(c.root) ELSE Cardinality(c.root)

Range(f) == {f[i] : i \in DOMAIN f}

RECURSIVE StepsOf(_)
\* the step names that occur in a structure
StepsOf(c) ==
    IF IsStr(c) THEN {c.step}
    ELSE IF IsSeries(c) THEN UNION {StepsOf(c.root[i]) : i \in DOMAIN c.root}
    ELSE IF IsParallel(c) THEN UNION {StepsOf(x) : x \in c.root}
    ELSE {}

(***************************************************************************)
(* Iteration over a frozenset.  CPython enumerates a frozenset in the      *)
(* order of its members' hashes, and str hashes are salted per process     *)
(* (PYTHONHASHSEED): the order is fixed within one run and arbitrary       *)
(* across runs.  `seed` ranks the step names; a member is enumerated        *)
(* at the rank of its best-ranked step.                                    *)
(***************************************************************************)
HashKey(c, seed) ==
    LET ranks == {seed[s] : s \in StepsOf(c)}
    IN  IF ranks = {} THEN 0 ELSE CHOOSE r \in ranks : \A q \in ranks : r <= q

RECURSIVE Enumerate(_, _)
Enumerate(S, seed) ==
    IF S = {} THEN <<>>
    ELSE LET m == CHOOSE x \in S : \A y \in S : HashKey(x, seed) <= HashKey(y, seed)
         IN  <<m>> \o Enumerate(S \ {m}, seed)

Min(S) == CHOOSE x \in S : \A y \in S : x <= y

(***************************************************************************)
(* Instructions (usethis._pipeweld.ops).                                   *)
(***************************************************************************)
InsertParallel(after, step) == [op |-> "InsertParallel", after |-> after, step |-> step]
InsertSuccessor(after, step) == [op |-> "InsertSuccessor", after |-> after, step |-> step]

WeldResult(solution, instructions) ==
    [solution |-> solution, instructions |-> instructions]

(***************************************************************************)
(* _concat and _union: one level of flattening, None is skipped, and an    *)
(* empty outcome is None.                                                  *)
(***************************************************************************)
RECURSIVE ConcatItems(_)
\* a concatenation that appends a Series as one item
ConcatItems_nested(components) ==
    IF components = <<>> THEN <<>>
    ELSE LET c == Head(components)
             rest == ConcatItems(Tail(components))
         IN  IF c = None THEN rest ELSE <<c>> \o rest

ConcatItems(components) ==
    IF components = <<>> THEN <<>>
    ELSE LET c == Head(components)
             rest == ConcatItems(Tail(components))
         IN  IF IsSeries(c) THEN c.root \o rest
             ELSE IF IsParallel(c) \/ IsStr(c) THEN <<c>> \o rest
             ELSE rest

_concat(components) ==
    LET s == ConcatItems(components)
    IN  IF s = <<>> THEN None ELSE series(s)

\* a union that adds a Parallel as one member
UnionItems_nested(components) ==
    UNION {IF components[i] = None THEN {} ELSE {components[i]} : i \in DOMAIN components}

UnionItems(components) ==
    UNION {IF IsParallel(components[i]) THEN components[i].root
           ELSE IF IsSeries(components[i]) \/ IsStr(components[i]) THEN {components[i]}
           ELSE {} : i \in DOMAIN components}

\* a union that does not flatten the Parallels it is given
_union_unflattened(components) ==
    LET p == UnionItems_nested(components)
    IN  IF p = {} THEN None ELSE parallel(p)

_union(components) ==
    LET p == UnionItems(components)
    IN  IF p = {} THEN None ELSE parallel(p)

RECURSIVE _has_any_steps(_, _)
_has_any_steps(component, steps) ==
    IF IsStr(component) THEN component.step \in steps
    ELSE IF IsSeries(component)
         THEN \E i \in DOMAIN component.root : _has_any_steps(component.root[i], steps)
    ELSE \E x \in component.root : _has_any_steps(x, steps)

(***************************************************************************)
(* get_endpoint.  The ValueError it raises for a structure without steps   *)
(* is the result NoStep.  For a Parallel the endpoints of the members are  *)
(* collected in the order the frozenset enumerates them, and sorted.       *)
(***************************************************************************)
RECURSIVE sorted(_)
\* sorted(endpoints)
sorted(endpoints) ==
    IF endpoints = <<>> THEN <<>>
    ELSE LET least == Min(Range(endpoints))
             at == Min({i \in DOMAIN endpoints : endpoints[i] = least})
         IN  <<least>> \o sorted(SubSeq(endpoints, 1, at - 1)
                                  \o SubSeq(endpoints, at + 1, Len(endpoints)))

RECURSIVE Suppress(_)
\* a collection that suppresses no ValueError
Suppress_nothing(endpoints) == endpoints

\* the endpoints that were collected, in order (a ValueError is suppressed)
Suppress(endpoints) ==
    IF endpoints = <<>> THEN <<>>
    ELSE IF Head(endpoints) = NoStep THEN Suppress(Tail(endpoints))
    ELSE <<Head(endpoints)>> \o Suppress(Tail(endpoints))

\* a choice of the endpoint that takes the member enumerated first
endpoint_of_first(endpoints) == endpoints[1]

\* sorted(endpoints)[0]
endpoint_of(endpoints) == sorted(endpoints)[1]

RECURSIVE get_endpoint(_, _)
get_endpoint(component, seed) ==
    IF IsStr(component) THEN component.step
    ELSE IF IsSeries(component)
         THEN LET ok == {i \in DOMAIN component.root :
                             get_endpoint(component.root[i], seed) # NoStep}
              IN  IF ok = {} THEN NoStep
                  ELSE get_endpoint(component.root[CHOOSE i \in ok : \A j \in ok : j <= i],
                                    seed)
    ELSE LET members == Enumerate(component.root, seed)
             endpoints == Suppress([i \in DOMAIN members |->
                                        get_endpoint(members[i], seed)])
         IN  IF endpoints = <<>> THEN NoStep ELSE endpoint_of(endpoints)

(***************************************************************************)
(* _get_instructions_insert_successor: the instructions that chain the     *)
(* steps of a zone after `after`, and the step the next zone chains from.  *)
(* A Parallel yields no instruction (the source's "TODO implement this").  *)
(***************************************************************************)
RECURSIVE _get_instructions_insert_successor(_, _)
RECURSIVE InsertSuccessorSeries(_, _, _)
InsertSuccessorSeries(root, i, after) ==
    IF i > Len(root) THEN [ins |-> <<>>, endpoint |-> after]
    ELSE LET r == _get_instructions_insert_successor(root[i], after)
             rest == InsertSuccessorSeries(root, i + 1, r.endpoint)
         IN  [ins |-> r.ins \o rest.ins, endpoint |-> rest.endpoint]

_get_instructions_insert_successor(component, after) ==
    IF IsStr(component)
    THEN [ins |-> <<InsertSuccessor(after, component.step)>>, endpoint |-> component.step]
    ELSE IF IsSeries(component) THEN InsertSuccessorSeries(component.root, 1, after)
    ELSE [ins |-> <<>>, endpoint |-> after]

(***************************************************************************)
(* Partition: three optional zones and the endpoint used as the            *)
(* predecessor of the next sibling.                                        *)
(***************************************************************************)
Partition(pre, non, post, endpoint) ==
    [prerequisite_component |-> pre,
     nondependent_component |-> non,
     postrequisite_component |-> post,
     top_ranked_endpoint |-> endpoint]

\* a flattening that takes the postrequisite zone twice
_flatten_partition_repeated(partition) ==
    _concat(<<partition.prerequisite_component,
              partition.nondependent_component,
              partition.postrequisite_component,
              partition.postrequisite_component>>)

_flatten_partition(partition) ==
    _concat(<<partition.prerequisite_component,
              partition.nondependent_component,
              partition.postrequisite_component>>)

\* the elements of a list that are not None, in order
RECURSIVE NotNone(_)
NotNone(components) ==
    IF components = <<>> THEN <<>>
    ELSE IF Head(components) = None THEN NotNone(Tail(components))
    ELSE <<Head(components)>> \o NotNone(Tail(components))

(***************************************************************************)
(* _op_series_merge_partitions                                             *)
(***************************************************************************)
\* a merge that concatenates the later sibling first
ElementWiseSwapped(a, b) ==
    IF a = None THEN b ELSE IF b = None THEN a ELSE _concat(<<b, a>>)

\* one zone of the element-wise concatenation
ElementWise(a, b) ==
    IF a = None THEN b ELSE IF b = None THEN a ELSE _concat(<<a, b>>)

\* a series merge without the postrequisite-absorption case
_op_series_merge_partitions_unabsorbed(partition, next_partition) ==
    IF next_partition.prerequisite_component # None
    THEN Partition(_concat(<<partition.prerequisite_component,
                             partition.nondependent_component,
                             partition.postrequisite_component,
                             next_partition.prerequisite_component>>),
                   next_partition.nondependent_component,
                   next_partition.postrequisite_component,
                   next_partition.top_ranked_endpoint)
    ELSE Partition(ElementWise(partition.prerequisite_component,
                               next_partition.prerequisite_component),
                   ElementWise(partition.nondependent_component,
                               next_partition.nondependent_component),
                   ElementWise(partition.postrequisite_component,
                               next_partition.postrequisite_component),
                   next_partition.top_ranked_endpoint)


\* a series merge whose absorption case puts the later sibling first
_op_series_merge_partitions_prepended(partition, next_partition) ==
    IF next_partition.prerequisite_component # None
    THEN Partition(_concat(<<partition.prerequisite_component,
                             partition.nondependent_component,
                             partition.postrequisite_component,
                             next_partition.prerequisite_component>>),
                   next_partition.nondependent_component,
                   next_partition.postrequisite_component,
                   next_partition.top_ranked_endpoint)
    ELSE IF next_partition.nondependent_component # None
            /\ partition.postrequisite_component # None
    THEN Partition(_concat(<<partition.prerequisite_component,
                             next_partition.prerequisite_component>>),
                   partition.nondependent_component,
                   _concat(<<next_partition.nondependent_component,
                             next_partition.postrequisite_component,
                             partition.postrequisite_component>>),
                   next_partition.top_ranked_endpoint)
    ELSE Partition(ElementWise(partition.prerequisite_component,
                               next_partition.prerequisite_component),
                   ElementWise(partition.nondependent_component,
                               next_partition.nondependent_component),
                   ElementWise(partition.postrequisite_component,
                               next_partition.postrequisite_component),
                   next_partition.top_ranked_endpoint)

_op_series_merge_partitions(partition, next_partition) ==
    IF next_partition.prerequisite_component # None
    THEN Partition(_concat(<<partition.prerequisite_component,
                             partition.nondependent_component,
                             partition.postrequisite_component,
                             next_partition.prerequisite_component>>),
                   next_partition.nondependent_component,
                   next_partition.postrequisite_component,
                   next_partition.top_ranked_endpoint)
    ELSE IF next_partition.nondependent_component # None
            /\ partition.postrequisite_component # None
    THEN Partition(_concat(<<partition.prerequisite_component,
                             next_partition.prerequisite_component>>),
                   partition.nondependent_component,
                   _concat(<<partition.postrequisite_component,
                             next_partition.nondependent_component,
                             next_partition.postrequisite_component>>),
                   next_partition.top_ranked_endpoint)
    ELSE Partition(ElementWise(partition.prerequisite_component,
                               next_partition.prerequisite_component),
                   ElementWise(partition.nondependent_component,
                               next_partition.nondependent_component),
                   ElementWise(partition.postrequisite_component,
                               next_partition.postrequisite_component),
                   next_partition.top_ranked_endpoint)

\* reduce(_op_series_merge_partitions, partitions)
RECURSIVE Reduce(_, _, _)
Reduce(acc, partitions, i) ==
    IF i > Len(partitions) THEN acc
    ELSE Reduce(_op_series_merge_partitions(acc, partitions[i]), partitions, i + 1)

(***************************************************************************)
(* _parallel_merge_partitions                                              *)
(***************************************************************************)
\* a merge that keeps a singleton Parallel
MergedZoneUncollapsed(components) ==
    IF components = <<>> THEN None ELSE _union(components)

\* the union of one zone over the partitions, a singleton collapsed
MergedZone(components) ==
    IF components = <<>> THEN None
    ELSE LET u == _union(components)
         IN  IF u # None /\ len(u) = 1 THEN CHOOSE x \in u.root : TRUE ELSE u

_parallel_merge_partitions(partitions, predecessor, seed) ==
    LET indices == DOMAIN partitions
        prerequisite_component ==
            MergedZone(NotNone([i \in indices |-> partitions[i].prerequisite_component]))
        nondependent_component ==
            MergedZone(NotNone([i \in indices |-> partitions[i].nondependent_component]))
        postrequisite_component ==
            MergedZone(NotNone([i \in indices |-> partitions[i].postrequisite_component]))
        pre_endpoints == {partitions[i].top_ranked_endpoint :
                            i \in {j \in indices : partitions[j].prerequisite_component # None}}
        non_endpoints == {partitions[i].top_ranked_endpoint :
                            i \in {j \in indices : partitions[j].nondependent_component # None}}
        post_endpoints == {partitions[i].top_ranked_endpoint :
                            i \in {j \in indices : partitions[j].postrequisite_component # None}}
        top_ranked_endpoint ==
            Min(IF post_endpoints # {} THEN post_endpoints
                ELSE IF non_endpoints # {} THEN non_endpoints
                ELSE pre_endpoints)
        pre_ins ==
            IF prerequisite_component # None
            THEN _get_instructions_insert_successor(prerequisite_component, predecessor).ins
            ELSE <<>>
        non_after ==
            IF prerequisite_component # None
            THEN get_endpoint(prerequisite_component, seed) ELSE predecessor
        non_ins ==
            IF nondependent_component # None
            THEN _get_instructions_insert_successor(nondependent_component, non_after).ins
            ELSE <<>>
        post_after ==
            IF nondependent_component # None THEN get_endpoint(nondependent_component, seed)
            ELSE IF prerequisite_component # None THEN get_endpoint(prerequisite_component, seed)
            ELSE predecessor
        post_ins ==
            IF postrequisite_component # None
            THEN _get_instructions_insert_successor(postrequisite_component, post_after).ins
            ELSE <<>>
    IN  [part |-> Partition(prerequisite_component, nondependent_component,
                            postrequisite_component, top_ranked_endpoint),
         ins |-> pre_ins \o non_ins \o post_ins]

(***************************************************************************)
(* partition_component, dispatched on the type of the component.           *)
(***************************************************************************)
\* a classification that asks whether there are postrequisites at all
partition_str_any(component, prerequisites, postrequisites) ==
    IF component.step \in prerequisites
    THEN [part |-> Partition(component, None, None, component.step), ins |-> <<>>]
    ELSE IF postrequisites # {}
    THEN [part |-> Partition(None, None, component, component.step), ins |-> <<>>]
    ELSE [part |-> Partition(None, component, None, component.step), ins |-> <<>>]


partition_str(component, prerequisites, postrequisites) ==
    IF component.step \in prerequisites
    THEN [part |-> Partition(component, None, None, component.step), ins |-> <<>>]
    ELSE IF component.step \in postrequisites
    THEN [part |-> Partition(None, None, component, component.step), ins |-> <<>>]
    ELSE [part |-> Partition(None, component, None, component.step), ins |-> <<>>]

RECURSIVE Flatten(_)
\* [x for l in lists for x in l]
Flatten(lists) ==
    IF lists = <<>> THEN <<>> ELSE Head(lists) \o Flatten(Tail(lists))

RECURSIVE partition_component(_, _, _, _, _)
RECURSIVE _get_series_partitions(_, _, _, _, _, _)

partition_Parallel(component, predecessor, prerequisites, postrequisites, seed) ==
    LET members == Enumerate(component.root, seed)
        tuples == [i \in DOMAIN members |->
                      partition_component(members[i], predecessor,
                                          prerequisites, postrequisites, seed)]
        partitions == [i \in DOMAIN tuples |-> tuples[i].part]
        instructions == Flatten([i \in DOMAIN tuples |-> tuples[i].ins])
        any_prerequisites ==
            \E i \in DOMAIN partitions : partitions[i].prerequisite_component # None
        any_postrequisites ==
            \E i \in DOMAIN partitions : partitions[i].postrequisite_component # None
        endpoint == Min({partitions[i].top_ranked_endpoint : i \in DOMAIN partitions})
    IN  IF any_prerequisites /\ any_postrequisites
        THEN _parallel_merge_partitions(partitions, predecessor, seed)
        ELSE IF any_prerequisites
        THEN [part |-> Partition(component, None, None, endpoint), ins |-> instructions]
        ELSE IF any_postrequisites
        THEN [part |-> Partition(None, None, component, endpoint), ins |-> instructions]
        ELSE [part |-> Partition(None, component, None, endpoint), ins |-> instructions]

\* series(zone) if the zone is not None
Wrap(zone) == IF zone # None THEN series(<<zone>>) ELSE None

partition_Series(component, predecessor, prerequisites, postrequisites, seed) ==
    LET r == _get_series_partitions(component.root, 1, predecessor,
                                    prerequisites, postrequisites, seed)
        partitions == r.parts
    IN  IF Len(partitions) > 1
        THEN [part |-> Reduce(partitions[1], partitions, 2), ins |-> r.ins]
        ELSE LET partition == partitions[1]
             IN  [part |-> Partition(Wrap(partition.prerequisite_component),
                                     Wrap(partition.nondependent_component),
                                     Wrap(partition.postrequisite_component),
                                     partition.top_ranked_endpoint),
                  ins |-> r.ins]

\* the loop of _get_series_partitions from child i on
_get_series_partitions(root, i, predecessor, prerequisites, postrequisites, seed) ==
    IF i > Len(root) THEN [parts |-> <<>>, ins |-> <<>>]
    ELSE LET r == partition_component(root[i], predecessor,
                                      prerequisites, postrequisites, seed)
             rest == _get_series_partitions(root, i + 1, r.part.top_ranked_endpoint,
                                            prerequisites, postrequisites, seed)
         IN  [parts |-> <<r.part>> \o rest.parts, ins |-> r.ins \o rest.ins]

partition_component(component, predecessor, prerequisites, postrequisites, seed) ==
    IF IsStr(component) THEN partition_str(component, prerequisites, postrequisites)
    ELSE IF IsParallel(component)
    THEN partition_Parallel(component, predecessor, prerequisites, postrequisites, seed)
    ELSE partition_Series(component, predecessor, prerequisites, postrequisites, seed)

(***************************************************************************)
(* Insertion.  The source edits `component.root` in place.  Each operator  *)
(* below takes the list it edits and returns                               *)
(*   root: the list after the call,                                        *)
(*   orig: for every element the list held at the call, the value of that  *)
(*         object after the call (a Series nested in it may be edited),    *)
(*   ins:  the instructions returned,                                      *)
(*   mut:  the pairs <<before, after>> of the Series objects below the     *)
(*         list whose contents the call changed.                           *)
(* When the list is a copy (`Series(list(parallel.root))`) the caller      *)
(* keeps `orig`, which is all that the original objects see of the edit.   *)
(* Positions are 1-based: the source's `idx + 1` is `pos` here.            *)
(***************************************************************************)
Replace(root, pos, c) == [root EXCEPT ![pos] = c]
\* the change of one Series object, if it changed
MutOf(before, after) == IF before = after THEN {} ELSE {<<before, after>>}
InsertAt(root, pos, c) == SubSeq(root, 1, pos - 1) \o <<c>> \o SubSeq(root, pos, Len(root))

RECURSIVE _insert_before_postrequisites(_, _, _, _, _)
_insert_before_postrequisites(root, pos, predecessor, step, postrequisites) ==
    LET successor_component == root[pos]
    IN  IF IsParallel(successor_component) /\ len(successor_component) = 1
        THEN LET member == CHOOSE x \in successor_component.root : TRUE
                 r == _insert_before_postrequisites(<<member>>, 1, predecessor,
                                                    step, postrequisites)
                 successor_after == Parallel({r.orig[1]})
                 union == _union(<<successor_after, Atom(step)>>)
             IN  [root |-> IF Len(r.root) = 1 /\ IsParallel(r.root[1]) /\ r.root[1] = union
                           THEN Replace(root, pos, union)
                           ELSE Replace(root, pos, successor_after),
                  orig |-> Replace(root, pos, successor_after),
                  ins |-> r.ins,
                  mut |-> r.mut]
        ELSE IF IsParallel(successor_component) \/ IsStr(successor_component)
        THEN IF _has_any_steps(successor_component, postrequisites)
             THEN [root |-> InsertAt(root, pos, Atom(step)),
                   orig |-> root,
                   ins |-> <<InsertSuccessor(predecessor, step)>>,
                   mut |-> {}]
             ELSE [root |-> Replace(root, pos, _union(<<successor_component, Atom(step)>>)),
                   orig |-> root,
                   ins |-> <<InsertParallel(predecessor, step)>>,
                   mut |-> {}]
        ELSE LET r == _insert_before_postrequisites(successor_component.root, 1,
                                                    predecessor, step, postrequisites)
                 successor_after == Series(r.root)
             IN  [root |-> Replace(root, pos, successor_after),
                  orig |-> Replace(root, pos, successor_after),
                  ins |-> r.ins,
                  mut |-> r.mut \cup MutOf(successor_component, successor_after)]

RECURSIVE _insert_step(_, _, _, _, _)
RECURSIVE InsertStepFrom(_, _, _, _, _, _)
\* the backwards loop of _insert_step at position i
InsertStepFrom(root, i, step, prerequisites, postrequisites, seed) ==
    IF i < 1 THEN [root |-> root, orig |-> root, ins |-> <<>>, mut |-> {}]
    ELSE LET subcomponent == root[i]
             continue == InsertStepFrom(root, i - 1, step, prerequisites,
                                        postrequisites, seed)
         IN  IF IsStr(subcomponent)
             THEN IF subcomponent.step \in prerequisites
                  THEN IF i < Len(root)
                       THEN _insert_before_postrequisites(root, i + 1, subcomponent.step,
                                                          step, postrequisites)
                       ELSE [root |-> Append(root, Atom(step)),
                             orig |-> root,
                             ins |-> <<InsertSuccessor(subcomponent.step, step)>>,
                             mut |-> {}]
                  ELSE continue
             ELSE IF IsSeries(subcomponent)
             THEN LET added == _insert_step(subcomponent.root, step, prerequisites,
                                            postrequisites, seed)
                      after == Series(added.root)
                  IN  IF added.ins # <<>>
                      THEN [root |-> Replace(root, i, after),
                            orig |-> Replace(root, i, after),
                            ins |-> added.ins,
                            mut |-> added.mut \cup MutOf(subcomponent, after)]
                      ELSE continue
             ELSE LET added == _insert_step(Enumerate(subcomponent.root, seed), step,
                                            prerequisites, postrequisites, seed)
                      after == Parallel(Range(added.orig))
                  IN  IF added.ins # <<>>
                      THEN [root |-> Replace(root, i, after),
                            orig |-> Replace(root, i, after),
                            ins |-> added.ins,
                            mut |-> added.mut]
                      ELSE continue

_insert_step(root, step, prerequisites, postrequisites, seed) ==
    InsertStepFrom(root, Len(root), step, prerequisites, postrequisites, seed)

(***************************************************************************)
(* add                                                                     *)
(***************************************************************************)
\* an empty-pipeline case that emits the other instruction
add_empty_successor(step) ==
    WeldResult(series(<<Atom(step)>>), <<InsertSuccessor(NoStep, step)>>)

\* the empty pipeline: the step becomes the only element
add_empty(step) ==
    WeldResult(series(<<Atom(step)>>), <<InsertParallel(NoStep, step)>>)

\* a fallback at the last element of the rearranged pipeline
add_fallback_last(root, step, postrequisites) ==
    _insert_before_postrequisites(root, Len(root), NoStep, step, postrequisites)

\* a fallback anchored after the new step itself
add_fallback_self(root, step, postrequisites) ==
    _insert_before_postrequisites(root, 1, step, step, postrequisites)

\* no prerequisite was found: `idx=-1, predecessor=None`, that is the
\* element at the start of the rearranged pipeline
add_fallback(root, step, postrequisites) ==
    _insert_before_postrequisites(root, 1, NoStep, step, postrequisites)

add(pipeline, step, prerequisites, postrequisites, seed) ==
    IF len(pipeline) = 0
    THEN add_empty(step)
    ELSE LET p == partition_component(pipeline, NoStep, prerequisites,
                                      postrequisites, seed)
             rearranged_pipeline == _flatten_partition(p.part)
             inserted == _insert_step(rearranged_pipeline.root, step, prerequisites,
                                      postrequisites, seed)
             fallback == add_fallback(rearranged_pipeline.root, step, postrequisites)
         IN  IF inserted.ins # <<>>
             THEN WeldResult(Series(inserted.root), p.ins \o inserted.ins)
             ELSE WeldResult(Series(fallback.root), p.ins \o fallback.ins)

(***************************************************************************)
(* What the caller sees of the call.  The rearranged pipeline is a new     *)
(* Series, but a Parallel that partition_component keeps whole in one zone *)
(* is the caller's own object (`prerequisite_component=component`), and    *)
(* _union and _concat pass the members of a component on as they are: the  *)
(* Series objects below such a Parallel are shared between the caller's    *)
(* pipeline and the rearranged one, and an insertion into one of them      *)
(* edits the caller's pipeline.                                            *)
(***************************************************************************)
RECURSIVE SeriesIn(_)
\* the Series objects of a structure
SeriesIn(c) ==
    IF IsStr(c) THEN {}
    ELSE IF IsSeries(c) THEN {c} \cup UNION {SeriesIn(c.root[i]) : i \in DOMAIN c.root}
    ELSE UNION {SeriesIn(x) : x \in c.root}

RECURSIVE shared(_, _, _, _)
\* the Series objects of a component that its partition still holds
shared(component, prerequisites, postrequisites, seed) ==
    IF IsStr(component) THEN {}
    ELSE IF IsSeries(component)
    THEN UNION {shared(component.root[i], prerequisites, postrequisites, seed) :
                    i \in DOMAIN component.root}
    ELSE UNION {IF /\ \E q \in partitions : q.prerequisite_component # None
                   /\ \E q \in partitions : q.postrequisite_component # None
                THEN UNION {shared(m, prerequisites, postrequisites, seed) :
                                m \in component.root}
                ELSE SeriesIn(component) :
                partitions \in {{partition_component(m, NoStep, prerequisites,
                                                     postrequisites, seed).part :
                                     m \in component.root}}}

\* the changes add makes to Series objects of the caller's pipeline
add_mutations(pipeline, step, prerequisites, postrequisites, seed) ==
    IF len(pipeline) = 0 THEN {}
    ELSE UNION {UNION {UNION {{m \in mut : m[1] \in objects} :
        \* the Series objects the caller still holds
        objects \in {IF mut = {} THEN {}
                      ELSE shared(pipeline, prerequisites, postrequisites, seed)}} :
        \* the Series objects the insertion edits
        mut \in UNION {{IF inserted.ins # <<>> THEN inserted.mut
                         ELSE add_fallback(root, step, postrequisites).mut} :
                        inserted \in {_insert_step(root, step, prerequisites,
                                                    postrequisites, seed)}}} :
        \* rearranged_pipeline.root
        root \in {_flatten_partition(
                      partition_component(pipeline, NoStep, prerequisites,
                                          postrequisites, seed).part).root}}

RECURSIVE Mutated(_, _)
\* the contents of a structure once the Series objects in it have changed
Mutated(c, mut) ==
    IF IsStr(c) THEN c
    ELSE IF IsSeries(c)
    THEN IF \E m \in mut : m[1] = c
         THEN (CHOOSE m \in mut : m[1] = c)[2]
         ELSE Series([i \in DOMAIN c.root |-> Mutated(c.root[i], mut)])
    ELSE Parallel({Mutated(x, mut) : x \in c.root})

(***************************************************************************)
(* The inputs: every pipeline of the steps 1 .. n, n <= MaxSteps, with at  *)
(* most MaxContainers containers below the top-level Series, none of them  *)
(* empty.                                                                  *)
(***************************************************************************)
RECURSIVE Containers(_)
RECURSIVE ContainersIn(_)
\* the number of Series and Parallel objects of a structure
Containers(c) ==
    IF IsStr(c) THEN 0
    ELSE IF IsSeries(c) THEN 1 + ContainersIn(Range(c.root))
    ELSE 1 + ContainersIn(c.root)

ContainersIn(S) ==
    IF S = {} THEN 0
    ELSE LET x == CHOOSE y \in S : TRUE IN Containers(x) + ContainersIn(S \ {x})

RECURSIVE Structures(_, _)
RECURSIVE ListsOver(_, _)
RECURSIVE SetsOver(_, _)

\* the structures whose steps are exactly S, of at most k containers
Structures(S, k) ==
    {Atom(s) : s \in {t \in S : S = {t}}}
    \cup (IF k = 0 THEN {}
          ELSE {Series(r) : r \in ListsOver(S, k - 1) \ {<<>>}}
               \cup {Parallel(m) : m \in SetsOver(S, k - 1) \ {{}}})

\* the lists of structures that share no step and hold exactly the steps S
ListsOver(S, k) ==
    IF S = {} THEN {<<>>}
    ELSE UNION {UNION {{<<x>> \o r : r \in ListsOver(S \ B, k - Containers(x))} :
                       x \in Structures(B, k)} :
                B \in (SUBSET S) \ {{}}}

\* the sets of structures that share no step and hold exactly the steps S
SetsOver(S, k) ==
    IF S = {} THEN {{}}
    ELSE UNION {UNION {{{x} \cup m : m \in SetsOver(S \ B, k - Containers(x))} :
                       x \in Structures(B, k)} :
                B \in {C \in SUBSET S : Min(S) \in C}}

Pipelines ==
    UNION {{Series(r) : r \in ListsOver(1 .. n, MaxContainers)} : n \in 0 .. MaxSteps}

ReqSets == {R \in SUBSET Names : Cardinality(R) <= MaxReqs}

RECURSIVE HasBranches(_)
\* some Parallel of the structure has more than one member
HasBranches(c) ==
    IF IsStr(c) THEN FALSE
    ELSE IF IsSeries(c) THEN \E i \in DOMAIN c.root : HasBranches(c.root[i])
    ELSE Cardinality(c.root) > 1 \/ \E x \in c.root : HasBranches(x)

Identity == [s \in Names |-> s]

\* the hash orders that enumerate the Parallels of a pipeline differently
Seeds(p) ==
    IF ~HasBranches(p) THEN {Identity}
    ELSE {f \in [Names -> Names] :
             /\ \A s, t \in Names : s # t => f[s] # f[t]
             /\ \A s \in Names \ StepsOf(p) : f[s] = s}

(***************************************************************************)
(* State: the arguments of one call of add (`pipeline` is the value the    *)
(* caller passed), the hash order of the run, the WeldResult once the call *)
(* has returned, and the contents of the caller's pipeline object, which   *)
(* the call may edit in place.                                             *)
(***************************************************************************)
VARIABLES pipeline, step, prerequisites, postrequisites, seed, result, pc,
          caller_pipeline,
          \* the arguments of a call of get_endpoint, partition_component or
          \* _op_series_merge_partitions
          component, predecessor, partition, next_partition,
          \* the idx argument of a call of _insert_before_postrequisites
          idx,
          \* the number of add calls of a chain made so far, and the pipeline of
          \* the first of them
          calls, first_pipeline,
          \* the contents of bitbucket-pipelines.yml and the Step argument of
          \* the last call of add_step_in_default or remove_step_from_default
          doc, new_step

vars == <<pipeline, step, prerequisites, postrequisites, seed, result, pc,
          caller_pipeline, component, predecessor, partition, next_partition,
          idx, calls, first_pipeline, doc, new_step>>

\* the variables of the calls of add
add_vars == <<pipeline, step, prerequisites, postrequisites, caller_pipeline>>
\* the variables of the calls of the functions add is made of
func_vars == <<component, predecessor, partition, next_partition, idx>>
\* the variables of a chain of calls of add
chain_vars == <<calls, first_pipeline>>
\* the variables of the calls on the Bitbucket file
file_vars == <<doc, new_step>>

Init ==
    /\ pipeline \in Pipelines
    /\ step \in Names \ StepsOf(pipeline)
    /\ prerequisites \in ReqSets
    /\ postrequisites \in ReqSets
    /\ seed \in Seeds(pipeline)
    /\ result = None
    /\ pc = "call"
    /\ caller_pipeline = pipeline
    /\ component = None /\ predecessor = NoStep /\ idx = 0
    /\ partition = None /\ next_partition = None
    /\ calls = 1 /\ first_pipeline = pipeline
    /\ doc = None /\ new_step = None

\* result = add(pipeline, step=step, prerequisites=..., postrequisites=...)
Add ==
    /\ pc = "call"
    /\ result' = add(pipeline, step, prerequisites, postrequisites, seed)
    /\ pc' = "done"
    /\ \E mut \in {add_mutations(pipeline, step, prerequisites, postrequisites, seed)} :
           caller_pipeline' = Mutated(caller_pipeline, mut)
    /\ UNCHANGED <<pipeline, step, prerequisites, postrequisites, seed>>
    /\ UNCHANGED func_vars
    /\ UNCHANGED chain_vars
    /\ UNCHANGED file_vars

Next == Add

Spec == Init /\ [][Next]_vars

(***************************************************************************)
(* Chains of calls of add: the solution of a call is the pipeline of the   *)
(* next one, which adds a step the pipeline does not have yet.  The first  *)
(* pipeline leaves a name free for each of the MaxCalls calls.             *)
(***************************************************************************)
ChainPipelines ==
    UNION {{Series(r) : r \in ListsOver(1 .. n, MaxContainers)} :
           n \in 0 .. (Cardinality(Names) - MaxCalls)}

\* requisites among the steps of the pipeline
ChainReqSets(p) == {R \in ReqSets : R \subseteq StepsOf(p)}

InitChain ==
    /\ pipeline \in ChainPipelines
    /\ step \in Names \ StepsOf(pipeline)
    /\ prerequisites \in ChainReqSets(pipeline)
    /\ postrequisites \in ChainReqSets(pipeline)
    /\ seed \in Seeds(pipeline)
    /\ result = None
    /\ pc = "call"
    /\ caller_pipeline = pipeline
    /\ component = None /\ predecessor = NoStep /\ idx = 0
    /\ partition = None /\ next_partition = None
    /\ calls = 1 /\ first_pipeline = pipeline
    /\ doc = None /\ new_step = None

\* the caller passes result.solution to the next call of add
AddAgain ==
    /\ pc = "done"
    /\ calls < MaxCalls
    /\ pipeline' = result.solution
    /\ step' \in Names \ StepsOf(pipeline')
    /\ prerequisites' \in ChainReqSets(pipeline')
    /\ postrequisites' \in ChainReqSets(pipeline')
    /\ seed' \in Seeds(pipeline')
    /\ result' = None
    /\ pc' = "call"
    /\ caller_pipeline' = pipeline'
    /\ calls' = calls + 1
    /\ UNCHANGED first_pipeline
    /\ UNCHANGED func_vars
    /\ UNCHANGED file_vars

NextChain == Add \/ AddAgain

SpecChain == InitChain /\ [][NextChain]_vars

(***************************************************************************)
(* Calls of get_endpoint.  The inputs are the structures of at most        *)
(* MaxSteps steps and MaxContainers containers, empty containers included. *)
(***************************************************************************)
RECURSIVE StructuresE(_, _)
RECURSIVE ListsE(_, _)
RECURSIVE SetsE(_, _)

\* the structures whose steps are exactly S, of at most k containers
StructuresE(S, k) ==
    {Atom(s) : s \in {t \in S : S = {t}}}
    \cup (IF k = 0 THEN {}
          ELSE {Series(r) : r \in ListsE(S, k - 1)}
               \cup {Parallel(m) : m \in SetsE(S, k - 1)})

ListsE(S, k) ==
    (IF S = {} THEN {<<>>} ELSE {})
    \cup UNION {UNION {{<<x>> \o r : r \in ListsE(S \ B, k - Containers(x))} :
                        x \in StructuresE(B, k)} :
                 B \in SUBSET S}

SetsE(S, k) ==
    (IF S = {} THEN {{}} ELSE {})
    \cup UNION {UNION {{{x} \cup m : m \in SetsE(S \ B, k - Containers(x))} :
                        x \in StructuresE(B, k)} :
                 B \in {C \in SUBSET S : C = {} \/ Min(S) \in C}}

EndpointInputs ==
    UNION {StructuresE(S, MaxContainers) : S \in SUBSET (1 .. MaxSteps)}

\* what a call gives: the value it returns or the exception it raises
Returned(value) == [kind |-> "return", value |-> value]
Raised(error) == [kind |-> "raise", error |-> error]

InitEndpoint ==
    /\ component \in EndpointInputs
    /\ seed \in Seeds(component)
    /\ result = None
    /\ pc = "call"
    /\ pipeline = None /\ step = NoStep
    /\ prerequisites = {} /\ postrequisites = {}
    /\ caller_pipeline = None
    /\ predecessor = NoStep /\ idx = 0 /\ partition = None /\ next_partition = None
    /\ calls = 0 /\ first_pipeline = None
    /\ doc = None /\ new_step = None

\* result = get_endpoint(component)
GetEndpoint ==
    /\ pc = "call"
    /\ result' = LET endpoint == get_endpoint(component, seed)
                 IN  IF endpoint = NoStep THEN Raised("ValueError")
                     ELSE Returned(endpoint)
    /\ pc' = "done"
    /\ UNCHANGED <<seed, component>>
    /\ UNCHANGED add_vars
    /\ UNCHANGED <<predecessor, partition, next_partition, idx>>
    /\ UNCHANGED chain_vars
    /\ UNCHANGED file_vars

NextEndpoint == GetEndpoint

SpecEndpoint == InitEndpoint /\ [][NextEndpoint]_vars

(***************************************************************************)
(* Calls of partition_component.  The inputs are the structures of at most *)
(* MaxSteps steps and MaxContainers + 1 containers (the component itself   *)
(* and MaxContainers below it), none of them empty; the predecessor is     *)
(* None or a step that is not in the component.                            *)
(***************************************************************************)
PartitionInputs ==
    UNION {Structures(S, MaxContainers + 1) : S \in (SUBSET (1 .. MaxSteps)) \ {{}}}

\* the requisite sets over the steps of a component and one absent name
ReqSetsOf(c) == {R \in ReqSets : R \subseteq StepsOf(c) \cup {MaxSteps + 1}}

InitPartition ==
    /\ component \in PartitionInputs
    /\ predecessor \in {NoStep, MaxSteps + 1}
    /\ idx = 0
    /\ prerequisites \in ReqSetsOf(component)
    /\ postrequisites \in ReqSetsOf(component)
    /\ seed \in Seeds(component)
    /\ result = None
    /\ pc = "call"
    /\ pipeline = None /\ step = NoStep
    /\ caller_pipeline = None
    /\ partition = None /\ next_partition = None
    /\ calls = 0 /\ first_pipeline = None
    /\ doc = None /\ new_step = None

\* result = partition_component(component, predecessor=..., ...)
PartitionComponent ==
    /\ pc = "call"
    /\ result' = partition_component(component, predecessor, prerequisites,
                                     postrequisites, seed)
    /\ pc' = "done"
    /\ UNCHANGED <<pipeline, step, prerequisites, postrequisites, seed,
                   caller_pipeline>>
    /\ UNCHANGED func_vars
    /\ UNCHANGED chain_vars
    /\ UNCHANGED file_vars

NextPartition == PartitionComponent

SpecPartition == InitPartition /\ [][NextPartition]_vars

(***************************************************************************)
(* Calls of _op_series_merge_partitions.  The two partitions are those of  *)
(* two sibling components that share no step, as _get_series_partitions    *)
(* makes them: the earlier sibling has at most MaxSteps steps and          *)
(* MaxContainers containers, the later one is an atom or one container.    *)
(***************************************************************************)
\* the partitions of the structures of the steps S of at most k containers
PartitionsOf(S, k, pre, post) ==
    {partition_component(c, NoStep, pre, post, Identity).part : c \in Structures(S, k)}

InitMerge ==
    /\ \E S1 \in (SUBSET Names) \ {{}} :
       \E S2 \in (SUBSET (Names \ S1)) \ {{}} :
       \E pre \in ReqSets, post \in ReqSets :
           /\ Cardinality(S1) <= MaxSteps
           /\ pre \subseteq S1 \cup S2 /\ post \subseteq S1 \cup S2
           /\ partition \in PartitionsOf(S1, MaxContainers, pre, post)
           /\ next_partition \in PartitionsOf(S2, 1, pre, post)
    /\ result = None
    /\ pc = "call"
    /\ pipeline = None /\ step = NoStep
    /\ prerequisites = {} /\ postrequisites = {}
    /\ seed = Identity
    /\ caller_pipeline = None
    /\ component = None /\ predecessor = NoStep /\ idx = 0
    /\ calls = 0 /\ first_pipeline = None
    /\ doc = None /\ new_step = None

\* result = _op_series_merge_partitions(partition, next_partition)
SeriesMerge ==
    /\ pc = "call"
    /\ result' = _op_series_merge_partitions(partition, next_partition)
    /\ pc' = "done"
    /\ UNCHANGED <<pipeline, step, prerequisites, postrequisites, seed,
                   caller_pipeline>>
    /\ UNCHANGED func_vars
    /\ UNCHANGED chain_vars
    /\ UNCHANGED file_vars

NextMerge == SeriesMerge

SpecMerge == InitMerge /\ [][NextMerge]_vars

(***************************************************************************)
(* Dependency groups (usethis._pipeweld.containers.DepGroup): a Series of  *)
(* steps under a config_group label.  The Bitbucket adapter builds one for *)
(* each stage of a pipeline.  partition_component dispatches on the type   *)
(* of the component and registers str, Parallel and Series only.           *)
(***************************************************************************)
DepGroup(s, g) == [kind |-> "DepGroup", series |-> s, config_group |-> g]
IsDepGroup(c) == c.kind = "DepGroup"

\* the config_group labels of the model
ConfigGroups == {"x"}

RECURSIVE Grouped(_, _, _)
\* the structure with its Series of G made DepGroups labelled g
Grouped(c, G, g) ==
    IF IsStr(c) THEN c
    ELSE IF IsSeries(c)
    THEN IF c \in G THEN DepGroup(c, g)
         ELSE Series([i \in DOMAIN c.root |-> Grouped(c.root[i], G, g)])
    ELSE Parallel({Grouped(x, G, g) : x \in c.root})

\* the Series below the top level of a pipeline that hold steps only
Groupable(p) ==
    {c \in UNION {SeriesIn(p.root[i]) : i \in DOMAIN p.root} :
        \A i \in DOMAIN c.root : IsStr(c.root[i])}

RECURSIVE AllStepsOf(_)
\* the step names of a structure, those of its dependency groups included
AllStepsOf(c) ==
    IF IsStr(c) THEN {c.step}
    ELSE IF IsDepGroup(c) THEN AllStepsOf(c.series)
    ELSE IF IsSeries(c) THEN UNION {AllStepsOf(c.root[i]) : i \in DOMAIN c.root}
    ELSE UNION {AllStepsOf(x) : x \in c.root}

\* the types partition_component has an implementation for
Registered(c) == IsStr(c) \/ IsSeries(c) \/ IsParallel(c)

RECURSIVE Partitionable(_)
\* partition_component returns a (Partition, instructions) pair: for another
\* type the undecorated function runs, whose body is `...`, and the caller's
\* unpacking of None raises TypeError
Partitionable(c) ==
    IF ~Registered(c) THEN FALSE
    ELSE IF IsStr(c) THEN TRUE
    ELSE IF IsSeries(c) THEN \A i \in DOMAIN c.root : Partitionable(c.root[i])
    ELSE \A x \in c.root : Partitionable(x)

\* what a call of add gives for a pipeline that may hold dependency groups
add_call(p, s, pre, post, sd) ==
    IF len(p) > 0 /\ ~Partitionable(p) THEN Raised("TypeError")
    ELSE Returned(add(p, s, pre, post, sd))

InitDepGroup ==
    /\ \E p \in Pipelines : \E G \in SUBSET Groupable(p) : \E g \in ConfigGroups :
           /\ pipeline = Series([i \in DOMAIN p.root |-> Grouped(p.root[i], G, g)])
           /\ seed \in Seeds(p)
    /\ step \in Names \ AllStepsOf(pipeline)
    /\ prerequisites \in {R \in ReqSets : R \subseteq AllStepsOf(pipeline)}
    /\ postrequisites \in {R \in ReqSets : R \subseteq AllStepsOf(pipeline)}
    /\ result = None
    /\ pc = "call"
    /\ caller_pipeline = pipeline
    /\ component = None /\ predecessor = NoStep /\ idx = 0
    /\ partition = None /\ next_partition = None
    /\ calls = 1 /\ first_pipeline = pipeline
    /\ doc = None /\ new_step = None

\* result = add(pipeline, step=step, prerequisites=..., postrequisites=...)
AddDepGroup ==
    /\ pc = "call"
    /\ result' = add_call(pipeline, step, prerequisites, postrequisites, seed)
    /\ pc' = "done"
    /\ UNCHANGED <<pipeline, step, prerequisites, postrequisites, seed,
                   caller_pipeline>>
    /\ UNCHANGED func_vars
    /\ UNCHANGED chain_vars
    /\ UNCHANGED file_vars

NextDepGroup == AddDepGroup

SpecDepGroup == InitDepGroup /\ [][NextDepGroup]_vars

(***************************************************************************)
(* The default pipeline of bitbucket-pipelines.yml                         *)
(* (usethis._integrations.bitbucket.steps).  A step name is a number: 1 is *)
(* the placeholder's name, 2 and 3 are the names of _STEP_ORDER, 4 is a    *)
(* name usethis does not know; the numbers are in the order of the names   *)
(* as strings.                                                             *)
(***************************************************************************)
_PLACEHOLDER_NAME == 1
_STEP_ORDER == <<2, 3>>

\* items of a Script: a reference to an anchored definition, or a command
ScriptItemAnchor(name) == [kind |-> "ScriptItemAnchor", name |-> name]
Command(text) == [kind |-> "str", name |-> text]

Step(name, script, caches) == [name |-> name, script |-> script, caches |-> caches]

_get_placeholder_step ==
    Step(_PLACEHOLDER_NAME,
         <<ScriptItemAnchor("install-uv"), Command("echo 'Hello, world!'")>>,
         {"uv"})

\* the steps of the model: each name with the contents of the placeholder or
\* with those of a step that runs pre-commit
Steps ==
    {Step(n, _get_placeholder_step.script, _get_placeholder_step.caches) : n \in Names}
    \cup {Step(n, <<Command("uv run pre-commit run --all-files")>>, {"pre-commit"}) :
             n \in Names}

\* the items of a pipeline: a step, steps in parallel, a stage of steps
StepItem(s) == [kind |-> "StepItem", steps |-> <<s>>]
ParallelItem(steps) == [kind |-> "ParallelItem", steps |-> steps]
StageItem(steps) == [kind |-> "StageItem", steps |-> steps]

\* the file: whether it exists, the items of its default pipeline (none if it
\* has no default pipeline), the names of its cache definitions and of its
\* script definitions
BitbucketPipelinesYAMLDocument(exists, items, caches, script_items) ==
    [exists |-> exists, items |-> items, caches |-> caches,
     script_items |-> script_items]

NoFile == BitbucketPipelinesYAMLDocument(FALSE, <<>>, {}, {})

RECURSIVE StepsOfItems(_)
\* the steps of the items, in the order of the file
StepsOfItems(items) ==
    IF items = <<>> THEN <<>> ELSE Head(items).steps \o StepsOfItems(Tail(items))

get_steps_in_default(d) == IF ~d.exists THEN <<>> ELSE StepsOfItems(d.items)

\* a comparison of the contents only
_steps_are_equivalent_contents(step1, step2) ==
    [step1 EXCEPT !.name = step2.name] = step2

_steps_are_equivalent(step1, step2) ==
    \/ step1.name = step2.name
    \/ [step1 EXCEPT !.name = step2.name] = step2

\* add_caches defines the caches of the step that the file lacks
add_step_caches(d, s) ==
    IF s.caches = {} THEN d
    ELSE [d EXCEPT !.exists = TRUE, !.caches = @ \cup s.caches]

get_pipeweld_step(s) == s.name

RECURSIVE PipeweldItems(_)
PipeweldItems(items) ==
    IF items = <<>> THEN <<>>
    ELSE LET item == Head(items)
             names == [i \in DOMAIN item.steps |-> Atom(get_pipeweld_step(item.steps[i]))]
             c == IF item.kind = "StepItem" THEN names[1]
                  ELSE IF item.kind = "ParallelItem" THEN Parallel(Range(names))
                  ELSE DepGroup(series(names), "x")
         IN  <<c>> \o PipeweldItems(Tail(items))

get_pipeweld_pipeline_from_default(d) == series(PipeweldItems(d.items))

\* apply_pipeweld_instruction(instruction=..., new_step=..., doc=...): the
\* function takes instruction and new_step only
apply_pipeweld_instruction(instruction, s, d) == Raised("TypeError")

RECURSIVE ApplyAll(_, _, _)
\* the loop over weld_result.instructions
ApplyAll(instructions, s, d) ==
    IF instructions = <<>> THEN [doc |-> d, result |-> Returned(None)]
    ELSE LET r == apply_pipeweld_instruction(Head(instructions), s, d)
         IN  IF r.kind = "raise" THEN [doc |-> d, result |-> r]
             ELSE ApplyAll(Tail(instructions), s, d)

\* the names of _STEP_ORDER before the name of the step, all if it is not one
StepOrderPrerequisites(name) ==
    {_STEP_ORDER[i] : i \in {j \in DOMAIN _STEP_ORDER :
                                \A k \in 1 .. j : _STEP_ORDER[k] # name}}

\* with edit_bitbucket_pipelines_yaml() as doc: the file is written when the
\* block ends, and is left as it was when the block raises
edit_bitbucket_pipelines_yaml(d, outcome) ==
    CHOOSE saved \in
        {IF o.result.kind = "raise" THEN [doc |-> d, result |-> o.result]
         ELSE [doc |-> [o.doc EXCEPT !.exists = TRUE], result |-> o.result] :
         o \in {outcome}} : TRUE

\* the steps of a ParallelItem or a StageItem without those equivalent to step
Remaining(steps, s) ==
    SelectSeq(steps, LAMBDA x : ~_steps_are_equivalent(x, s))

RECURSIVE NewItems(_, _)
\* new_items of remove_step_from_default
NewItems(items, s) ==
    IF items = <<>> THEN <<>>
    ELSE LET item == Head(items)
             new_step_items == Remaining(item.steps, s)
             kept ==
                 IF new_step_items = <<>> THEN <<>>
                 ELSE IF item.kind = "ParallelItem" /\ Len(new_step_items) = 1
                         /\ Len(item.steps) # 1
                 THEN <<StepItem(new_step_items[1])>>
                 ELSE <<[item EXCEPT !.steps = new_step_items]>>
         IN  kept \o NewItems(Tail(items), s)

RECURSIVE default_pipeline_call(_, _, _, _)
\* The three functions of steps.py that edit the default pipeline, which
\* call one another: f names the function, d is the file before the call,
\* s the step, sd the iteration order of the frozensets.  The value is the
\* file after the call and what the call returned or raised.
default_pipeline_call(f, d, s, sd) ==
    CASE f = "_add_step_in_default_via_doc" ->
         LET anchors == {s.script[i].name :
                            i \in {j \in DOMAIN s.script :
                                      s.script[j].kind = "ScriptItemAnchor"}}
             defined == [d EXCEPT !.script_items = @ \cup anchors]
         IN  CHOOSE outcome \in
                 {IF weld_result.kind = "raise"
                  THEN [doc |-> defined, result |-> weld_result]
                  ELSE ApplyAll(weld_result.value.instructions, s, defined) :
                  weld_result \in {add_call(get_pipeweld_pipeline_from_default(defined),
                                            get_pipeweld_step(s),
                                            StepOrderPrerequisites(s.name), {}, sd)}} : TRUE
      [] f = "remove_step_from_default" ->
         IF ~d.exists \/ d.items = <<>> THEN [doc |-> d, result |-> Returned(None)]
         ELSE LET new_items == NewItems(d.items, s)
                  removed == [d EXCEPT !.items = new_items]
              IN  edit_bitbucket_pipelines_yaml(d,
                      IF new_items = <<>>
                      THEN default_pipeline_call("_add_step_in_default_via_doc",
                                                 removed, _get_placeholder_step, sd)
                      ELSE [doc |-> removed, result |-> Returned(None)])
      [] f = "add_step_in_default" ->
         LET existing_steps == get_steps_in_default(d) IN
         IF \E i \in DOMAIN existing_steps : _steps_are_equivalent(existing_steps[i], s)
         THEN [doc |-> d, result |-> Returned(None)]
         ELSE LET cached == add_step_caches(d, s)
              IN  CHOOSE outcome \in
                      {IF added.result.kind = "raise" THEN added
                       ELSE IF ~_steps_are_equivalent(_get_placeholder_step, s)
                       THEN default_pipeline_call("remove_step_from_default",
                                                  added.doc, _get_placeholder_step, sd)
                       ELSE added :
                       added \in {edit_bitbucket_pipelines_yaml(cached,
                                      default_pipeline_call("_add_step_in_default_via_doc",
                                                            cached, s, sd))}} : TRUE

_add_step_in_default_via_doc(s, d, sd) ==
    default_pipeline_call("_add_step_in_default_via_doc", d, s, sd)

remove_step_from_default(d, s, sd) ==
    default_pipeline_call("remove_step_from_default", d, s, sd)

add_step_in_default(d, s, sd) ==
    default_pipeline_call("add_step_in_default", d, s, sd)


(***************************************************************************)
(* Calls of add_step_in_default and remove_step_from_default, in any       *)
(* order, on a file whose default pipeline has at most MaxFileSteps steps  *)
(* with different names.                                                   *)
(***************************************************************************)
RECURSIVE StepLists(_, _)
\* the lists of at most n steps with names of S, no name twice
StepLists(S, n) ==
    {<<>>} \cup
    (IF n = 0 THEN {}
     ELSE UNION {{<<x>> \o r : r \in StepLists(S \ {x.name}, n - 1)} :
                 x \in {y \in Steps : y.name \in S}})

RECURSIVE ItemLists(_)
\* the ways of making items of a list of steps
ItemLists(steps) ==
    IF steps = <<>> THEN {<<>>}
    ELSE UNION {UNION {{<<item>> \o r : r \in ItemLists(SubSeq(steps, n + 1, Len(steps)))} :
                       item \in {ParallelItem(SubSeq(steps, 1, n)),
                                 StageItem(SubSeq(steps, 1, n))}
                                \cup (IF n = 1 THEN {StepItem(steps[1])} ELSE {})} :
                n \in 1 .. Len(steps)}

Documents ==
    {NoFile} \cup
    {BitbucketPipelinesYAMLDocument(TRUE, items, caches, script_items) :
        items \in UNION {ItemLists(l) : l \in StepLists(Names, MaxFileSteps)},
        caches \in SUBSET {"uv", "pre-commit"},
        script_items \in SUBSET {"install-uv"}}

\* the hash orders of a run on the file: those of the names of the steps of
\* its ParallelItems, the only ones get_pipeweld_pipeline_from_default puts
\* in a frozenset
FileSeeds(d) ==
    LET names == UNION {{d.items[i].steps[j].name : j \in DOMAIN d.items[i].steps} :
                           i \in {k \in DOMAIN d.items :
                                     /\ d.items[k].kind = "ParallelItem"
                                     /\ Len(d.items[k].steps) > 1}}
    IN  {[x \in Names |-> IF x \in names THEN g[x] ELSE x] :
            g \in {h \in [names -> names] : \A x, y \in names : x # y => h[x] # h[y]}}

InitFile ==
    /\ doc \in Documents
    /\ new_step = None
    /\ result = None
    /\ pc = "call"
    /\ seed = Identity
    /\ pipeline = None /\ step = NoStep
    /\ prerequisites = {} /\ postrequisites = {}
    /\ caller_pipeline = None
    /\ component = None /\ predecessor = NoStep /\ idx = 0
    /\ partition = None /\ next_partition = None
    /\ calls = 0 /\ first_pipeline = None

\* a call f(new_step) on the file, in a process of its own
DefaultPipelineCall(f) ==
    \E sd \in FileSeeds(doc) : \E s \in Steps :
    \E r \in {default_pipeline_call(f, doc, s, sd)} :
        /\ new_step' = s
        /\ seed' = sd
        /\ doc' = r.doc
        /\ result' = r.result
        /\ pc' = f
        /\ UNCHANGED add_vars
        /\ UNCHANGED func_vars
        /\ UNCHANGED chain_vars

\* add_step_in_default(new_step)
AddStepInDefault == DefaultPipelineCall("add_step_in_default")

\* remove_step_from_default(new_step)
RemoveStepFromDefault == DefaultPipelineCall("remove_step_from_default")

NextFile == AddStepInDefault \/ RemoveStepFromDefault

SpecFile == InitFile /\ [][NextFile]_vars

(***************************************************************************)
(* apply_pipeweld_instruction_via_doc, applied to the instructions that    *)
(* add returns for a step that the default pipeline does not hold yet:     *)
(* the body of _add_step_in_default_via_doc with each instruction applied  *)
(* to the document at hand.                                                *)
(***************************************************************************)
\* the first item that holds the step named after, 0 if there is none
ItemOf(items, after) ==
    LET holding == {i \in DOMAIN items :
                       \E j \in DOMAIN items[i].steps :
                           get_pipeweld_step(items[i].steps[j]) = after}
    IN  IF holding = {} THEN 0 ELSE Min(holding)

apply_pipeweld_instruction_via_doc(instruction, s, d) ==
    IF get_pipeweld_step(s) # instruction.step THEN d
    ELSE IF instruction.after = NoStep
    THEN [d EXCEPT !.items = <<StepItem(s)>> \o @]
    ELSE LET i == ItemOf(d.items, instruction.after)
         IN  IF i = 0 THEN d
             ELSE [d EXCEPT !.items = InsertAt(@, i + 1, StepItem(s))]

\* the anchors of the script of the step s are defined in the file
WithScriptItems(d, s) ==
    [d EXCEPT !.script_items =
        @ \cup {s.script[i].name :
                   i \in {j \in DOMAIN s.script : s.script[j].kind = "ScriptItemAnchor"}}]

InitApply ==
    /\ doc \in Documents
    /\ new_step \in {s \in Steps :
                        \A i \in DOMAIN StepsOfItems(doc.items) :
                            StepsOfItems(doc.items)[i].name # s.name}
    /\ seed \in FileSeeds(doc)
    /\ result = None
    /\ pc = "call"
    /\ pipeline = None /\ step = NoStep
    /\ prerequisites = {} /\ postrequisites = {}
    /\ caller_pipeline = None
    /\ component = None /\ predecessor = NoStep /\ idx = 0
    /\ partition = None /\ next_partition = None
    /\ calls = 0 /\ first_pipeline = None

\* weld_result = usethis._pipeweld.func.add(...)
Weld ==
    /\ pc = "call"
    /\ doc' = WithScriptItems(doc, new_step)
    /\ result' = add_call(get_pipeweld_pipeline_from_default(doc'),
                          get_pipeweld_step(new_step),
                          StepOrderPrerequisites(new_step.name), {}, seed)
    /\ pc' = IF result'.kind = "raise" THEN "raised" ELSE "apply"
    /\ UNCHANGED <<new_step, seed>>
    /\ UNCHANGED add_vars
    /\ UNCHANGED func_vars
    /\ UNCHANGED chain_vars

\* for instruction in weld_result.instructions: the next instruction
ApplyPipeweldInstructionViaDoc ==
    /\ pc = "apply"
    /\ doc' = apply_pipeweld_instruction_via_doc(Head(result.value.instructions),
                                                 new_step, doc)
    /\ result' = [result EXCEPT !.value.instructions = Tail(@)]
    /\ pc' = IF Tail(result.value.instructions) = <<>> THEN "done" ELSE "apply"
    /\ UNCHANGED <<new_step, seed>>
    /\ UNCHANGED add_vars
    /\ UNCHANGED func_vars
    /\ UNCHANGED chain_vars

NextApply == Weld \/ ApplyPipeweldInstructionViaDoc

SpecApply == InitApply /\ [][NextApply]_vars

(***************************************************************************)
(* Calls of _insert_before_postrequisites on a Series of at most MaxSteps  *)
(* steps and MaxContainers containers below it.  With idx >= 0 the         *)
(* predecessor is the atom at idx, as _insert_step calls it; with idx = -1 *)
(* it is None or a step outside the Series, as add and the function itself *)
(* call it.  The result holds the root of the Series after the call and    *)
(* the instructions returned.                                              *)
(***************************************************************************)
InsertInputs ==
    UNION {{Series(r) : r \in ListsOver(S, MaxContainers)} :
           S \in (SUBSET (1 .. MaxSteps)) \ {{}}}

InitInsert ==
    /\ component \in InsertInputs
    /\ step \in Names \ StepsOf(component)
    /\ idx \in -1 .. (Len(component.root) - 2)
    /\ predecessor \in
           IF idx >= 0
           THEN {component.root[j].step :
                    j \in {k \in {idx + 1} : IsStr(component.root[k])}}
           ELSE {NoStep} \cup (Names \ (StepsOf(component) \cup {step}))
    /\ postrequisites \in ReqSets
    /\ result = None
    /\ pc = "call"
    /\ pipeline = None
    /\ prerequisites = {}
    /\ seed = Identity
    /\ caller_pipeline = None
    /\ partition = None /\ next_partition = None
    /\ calls = 0 /\ first_pipeline = None
    /\ doc = None /\ new_step = None

\* result = _insert_before_postrequisites(component, idx=idx, ...)
InsertBeforePostrequisites ==
    /\ pc = "call"
    /\ result' = _insert_before_postrequisites(component.root, idx + 2, predecessor,
                                               step, postrequisites)
    /\ pc' = "done"
    /\ UNCHANGED add_vars
    /\ UNCHANGED seed
    /\ UNCHANGED func_vars
    /\ UNCHANGED chain_vars
    /\ UNCHANGED file_vars

NextInsert == InsertBeforePostrequisites

SpecInsert == InitInsert /\ [][NextInsert]_vars

(***************************************************************************)
(* Calls of add whose only prerequisite in the pipeline is a non-last atom *)
(* of a Series that is a member of a Parallel group.  The pipelines have   *)
(* one container more below the top than those of Init, so that the        *)
(* element after the atom can be a Series or a Parallel.                   *)
(***************************************************************************)
RECURSIVE NestedSeries(_)
\* the Series that are members of a Parallel group of the structure c
NestedSeries(c) ==
    IF IsStr(c) THEN {}
    ELSE IF IsSeries(c) THEN UNION {NestedSeries(c.root[i]) : i \in DOMAIN c.root}
    ELSE {m \in c.root : IsSeries(m)} \cup UNION {NestedSeries(m) : m \in c.root}

\* the atoms of the nested Series of c that have an element after them
NestedAnchors(c) ==
    UNION {{n.root[i].step : i \in {j \in 1 .. (Len(n.root) - 1) : IsStr(n.root[j])}} :
           n \in NestedSeries(c)}

NestedPipelines ==
    {q \in UNION {{Series(r) : r \in ListsOver(1 .. n, MaxContainers + 1)} :
                  n \in 2 .. MaxSteps} : NestedAnchors(q) # {}}

InitNested ==
    /\ pipeline \in NestedPipelines
    /\ step \in Names \ StepsOf(pipeline)
    /\ prerequisites \in {R \in ReqSets :
                             \E p \in NestedAnchors(pipeline) :
                                 R \cap StepsOf(pipeline) = {p}}
    /\ postrequisites \in ReqSets
    /\ seed \in Seeds(pipeline)
    /\ result = None
    /\ pc = "call"
    /\ caller_pipeline = pipeline
    /\ component = None /\ predecessor = NoStep /\ idx = 0
    /\ partition = None /\ next_partition = None
    /\ calls = 1 /\ first_pipeline = pipeline
    /\ doc = None /\ new_step = None

NextNested == Add

SpecNested == InitNested /\ [][NextNested]_vars

(***************************************************************************)
(* Ordering of two steps in a structure with unique step names: the        *)
(* innermost container that holds both is a Series (one is sequenced       *)
(* before the other) or a Parallel (they are concurrent).                  *)
(***************************************************************************)
RECURSIVE Before(_, _, _)
\* x is sequenced before y in c
Before(c, x, y) ==
    IF IsStr(c) THEN FALSE
    ELSE IF IsSeries(c)
    THEN \/ \E i, j \in DOMAIN c.root :
               i < j /\ x \in StepsOf(c.root[i]) /\ y \in StepsOf(c.root[j])
         \/ \E i \in DOMAIN c.root : Before(c.root[i], x, y)
    ELSE \E m \in c.root : Before(m, x, y)

RECURSIVE Concurrent(_, _, _)
\* x and y are in different members of a Parallel of c
Concurrent(c, x, y) ==
    IF IsStr(c) THEN FALSE
    ELSE IF IsSeries(c) THEN \E i \in DOMAIN c.root : Concurrent(c.root[i], x, y)
    ELSE \/ \E m, n \in c.root : m # n /\ x \in StepsOf(m) /\ y \in StepsOf(n)
         \/ \E m \in c.root : Concurrent(m, x, y)

Done == pc = "done"
NonEmpty == len(pipeline) > 0
\* the steps of the caller's pipeline
Existing == StepsOf(pipeline)
\* a flat series of atoms
IsFlat(c) == IsSeries(c) /\ \A i \in DOMAIN c.root : IsStr(c.root[i])

\* the solution and the instructions of the returned WeldResult
solution == result.solution
instructions == result.instructions
\* the instruction returned last
LastInstruction == instructions[Len(instructions)]
\* no step of the pipeline is a prerequisite: _insert_step finds no anchor
NoAnchor == prerequisites \cap Existing = {}
\* the first and the last top-level element of the caller's pipeline
First == pipeline.root[1]
Last == pipeline.root[Len(pipeline.root)]

(***************************************************************************)
(* C1: add on an empty pipeline returns exactly                            *)
(* [InsertParallel(after=None, step=s)] and the solution series(s),        *)
(* whatever the prerequisites and postrequisites.                          *)
(***************************************************************************)
C1_EmptyPipeline ==
    Done /\ ~NonEmpty =>
        /\ instructions = <<InsertParallel(NoStep, step)>>
        /\ solution = Series(<<Atom(step)>>)

C1_Witness ==
    Done /\ ~NonEmpty /\ prerequisites # {} /\ postrequisites # {}

(***************************************************************************)
(* C2: for a non-empty flat series of atoms, none a prerequisite and the   *)
(* first not a postrequisite, add returns the single instruction           *)
(* InsertParallel(after=None, step=s) and the pipeline with its first      *)
(* element replaced by parallel(first, s), the later elements unchanged    *)
(* and in the same order.                                                  *)
(***************************************************************************)
C2_FlatSeriesFirstBecomesParallel ==
    Done /\ NonEmpty /\ IsFlat(pipeline) /\ NoAnchor /\ ~_has_any_steps(First, postrequisites) =>
        /\ instructions = <<InsertParallel(NoStep, step)>>
        /\ solution = Series([pipeline.root EXCEPT ![1] = Parallel({First, Atom(step)})])

C2_Witness ==
    /\ Done /\ IsFlat(pipeline) /\ Len(pipeline.root) = 3 /\ NoAnchor
    /\ ~_has_any_steps(First, postrequisites)
    /\ _has_any_steps(pipeline.root[2], postrequisites)
    /\ ~_has_any_steps(Last, postrequisites)
    /\ solution.root[1] = Parallel({First, Atom(step)})

(***************************************************************************)
(* C3, as claimed: when no prerequisite anchor is found in a non-empty     *)
(* pipeline, the new step is inserted in parallel with the last top-level  *)
(* element of the pipeline.                                                *)
(***************************************************************************)
C3_ParallelWithLast ==
    Done /\ NonEmpty /\ NoAnchor =>
        /\ step \in StepsOf(solution)
        /\ \A x \in StepsOf(Last) : Concurrent(solution, x, step)

(***************************************************************************)
(* C3, amended: when no prerequisite anchor is found in a non-empty        *)
(* pipeline, the new step is placed at the start of the pipeline: its      *)
(* instruction has after=None, no step of the pipeline is sequenced before *)
(* it in the solution, and when the first top-level element is an atom or  *)
(* a Parallel of several members that holds no postrequisite, that first   *)
(* element is replaced by its parallel union with the new step.            *)
(***************************************************************************)
C3_PlacedAtStart ==
    Done /\ NonEmpty /\ NoAnchor =>
        /\ LastInstruction.step = step /\ LastInstruction.after = NoStep
        /\ \A x \in Existing : ~Before(solution, x, step)
        /\ (IsStr(First) \/ (IsParallel(First) /\ len(First) > 1))
           /\ ~_has_any_steps(First, postrequisites)
           => /\ solution.root[1] = _union(<<First, Atom(step)>>)
              /\ LastInstruction = InsertParallel(NoStep, step)

C3_Witness ==
    /\ Done /\ NoAnchor /\ Len(pipeline.root) = 2
    /\ IsParallel(First) /\ len(First) = 2 /\ IsStr(Last)
    /\ solution = Series(<<_union(<<First, Atom(step)>>), Last>>)

(***************************************************************************)
(* C4: with empty prerequisites and postrequisites, two steps of the       *)
(* pipeline that are sequenced one before the other are sequenced the same *)
(* way in the solution.                                                    *)
(***************************************************************************)
C4_OrderPreserved ==
    Done /\ prerequisites = {} /\ postrequisites = {} =>
        \A x, y \in Existing : Before(pipeline, x, y) => Before(solution, x, y)

C4_Witness ==
    /\ Done /\ prerequisites = {} /\ postrequisites = {}
    /\ Len(pipeline.root) = 2 /\ IsSeries(First) /\ Len(First.root) = 2
    /\ Before(solution, 3, 2) /\ Before(solution, 2, 1)
    /\ step \in StepsOf(solution)

(***************************************************************************)
(* C5: when the prerequisite set is {p} and p is a top-level atom of the   *)
(* pipeline with a later sibling, the solution contains the new step       *)
(* either as a successor of p or in parallel with p's immediate successor, *)
(* and never before p: the step is in the solution, sequenced after p,     *)
(* with no step of the pipeline between p and it.                          *)
(***************************************************************************)
\* p is a top-level atom of the pipeline with a later sibling
TopLevelAtomWithSibling(p) ==
    \E i \in DOMAIN pipeline.root : i < Len(pipeline.root) /\ pipeline.root[i] = Atom(p)

C5_PrerequisitePlacement ==
    \A p \in Names :
        Done /\ prerequisites = {p} /\ TopLevelAtomWithSibling(p) =>
            /\ step \in StepsOf(solution)
            /\ Before(solution, p, step)
            /\ ~\E x \in Existing : Before(solution, p, x) /\ Before(solution, x, step)

(***************************************************************************)
(* C6: with no prerequisites and the postrequisite set {q}, q a step of    *)
(* the pipeline, the new step is never sequenced after q: it lands         *)
(* strictly before q, or in parallel with something that precedes q (and   *)
(* is then sequenced before q as well).                                    *)
(***************************************************************************)
C6_PostrequisiteBoundary ==
    \A q \in Existing :
        Done /\ prerequisites = {} /\ postrequisites = {q} =>
            /\ ~Before(solution, q, step)
            /\ Before(solution, step, q)

(***************************************************************************)
(* C7: the new step is neither before nor concurrent with any step of the  *)
(* pipeline that is named in prerequisites.                                *)
(***************************************************************************)
C7_AfterEveryPrerequisite ==
    Done =>
        \A p \in prerequisites \cap Existing :
            ~Before(solution, step, p) /\ ~Concurrent(solution, step, p)

(***************************************************************************)
(* C8: for distinct a, b, s,                                               *)
(*   add(series(parallel(a, b)), step=s, prerequisites={a},                *)
(*       postrequisites={b})                                               *)
(* returns the solution series(a, s, b) and the instructions               *)
(* [InsertSuccessor(None, a), InsertSuccessor(a, b), InsertSuccessor(a, s)]*)
(***************************************************************************)
C8_MixedParallelSerialized ==
    \A a, b \in Names :
        /\ Done /\ a # b
        /\ pipeline = Series(<<Parallel({Atom(a), Atom(b)})>>)
        /\ prerequisites = {a} /\ postrequisites = {b}
        => /\ solution = Series(<<Atom(a), Atom(step), Atom(b)>>)
           /\ instructions = <<InsertSuccessor(NoStep, a),
                               InsertSuccessor(a, b),
                               InsertSuccessor(a, step)>>

C8_Witness ==
    /\ Done
    /\ pipeline = Series(<<Parallel({Atom(1), Atom(2)})>>)
    /\ prerequisites = {2} /\ postrequisites = {1}
    /\ seed[1] < seed[2]
    /\ solution = Series(<<Atom(2), Atom(step), Atom(1)>>)

(***************************************************************************)
(* C9: when a Parallel group is split because its members together touch   *)
(* both the prerequisite and the postrequisite zone, the instructions hold *)
(* one instruction for every step of the group, also for steps that stay   *)
(* together in a Parallel zone, followed by the instruction for the new    *)
(* step.                                                                   *)
(***************************************************************************)
\* the zones of a member of a Parallel group
MemberPartition(m) ==
    partition_component(m, NoStep, prerequisites, postrequisites, seed).part

\* partition_component resolves the group by _parallel_merge_partitions
IsSplit(group) ==
    /\ IsParallel(group)
    /\ \E m \in group.root : MemberPartition(m).prerequisite_component # None
    /\ \E m \in group.root : MemberPartition(m).postrequisite_component # None

C9_SplitGroupFullyInstructed ==
    \A i \in DOMAIN pipeline.root :
        Done /\ IsSplit(pipeline.root[i]) =>
            /\ \A x \in StepsOf(pipeline.root[i]) :
                   \E k \in 1 .. Len(instructions) - 1 : instructions[k].step = x
            /\ LastInstruction.step = step

(***************************************************************************)
(* C10: names in prerequisites and postrequisites that are no step of the  *)
(* pipeline are ignored: add returns what it returns for the two sets      *)
(* restricted to the steps of the pipeline.                                *)
(***************************************************************************)
C10_AbsentNamesIgnored ==
    Done =>
        result = add(pipeline, step, prerequisites \cap Existing,
                     postrequisites \cap Existing, seed)

C10_Witness ==
    /\ Done /\ NonEmpty
    /\ prerequisites \cap Existing # {} /\ prerequisites \ Existing # {}
    /\ postrequisites \cap Existing # {} /\ postrequisites \ Existing # {}
    /\ step \in StepsOf(solution)

(***************************************************************************)
(* C11: add does not visibly mutate the caller-supplied pipeline: after    *)
(* the call, the pipeline and every Series and Parallel nested in it have  *)
(* the contents they had before the call.                                  *)
(***************************************************************************)
C11_CallerPipelineUnchanged ==
    Done => caller_pipeline = pipeline

(***************************************************************************)
(* C12: replaying the instructions in order on the caller's pipeline gives *)
(* a structure equivalent to the solution.  Whatever representation the    *)
(* caller replays them on, this requires that                              *)
(*  - every step an instruction places is a step of the solution,          *)
(*  - the new step, placed by the last instruction after the step `after`, *)
(*    is sequenced after `after` in the solution,                          *)
(*  - two steps of the pipeline that the solution orders differently than  *)
(*    the pipeline did are not both without an instruction.                *)
(***************************************************************************)
\* the steps the instructions place
Instructed == {instructions[k].step : k \in DOMAIN instructions}

\* x and y are related the same way in the structures c and d
SameRelation(c, d, x, y) ==
    /\ Before(c, x, y) <=> Before(d, x, y)
    /\ Before(c, y, x) <=> Before(d, y, x)
    /\ Concurrent(c, x, y) <=> Concurrent(d, x, y)

C12_InstructionsAgreeWithSolution ==
    Done =>
        /\ Instructed \subseteq StepsOf(solution)
        /\ LastInstruction.step = step
        /\ LastInstruction.after # NoStep =>
               Before(solution, LastInstruction.after, step)
        /\ \A x, y \in Existing \ Instructed :
               SameRelation(pipeline, solution, x, y)

(***************************************************************************)
(* C13: get_endpoint of a Parallel returns the alphabetically smallest of  *)
(* the endpoints of its members, skipping the members without one; the     *)
(* result is the same for every enumeration order of the members, and for  *)
(* the Parallel of the atoms {"B", "A"} it is "A".                         *)
(***************************************************************************)
C13_ParallelEndpointIsSmallest ==
    Done /\ IsParallel(component) /\ result.kind = "return" =>
        /\ result.value = Min({get_endpoint(m, seed) : m \in component.root} \ {NoStep})
        /\ \A order \in Seeds(component) : get_endpoint(component, order) = result.value
        /\ component = Parallel({Atom(2), Atom(1)}) => result.value = 1

C13_Witness ==
    /\ Done /\ component = Parallel({Atom(2), Atom(1)})
    /\ seed[2] < seed[1]
    /\ result = Returned(1)

(***************************************************************************)
(* C14, as claimed: get_endpoint fails with EmptyStructureError exactly    *)
(* when the structure contains no step, and for every structure with at    *)
(* least one step it returns a step of that structure.                     *)
(***************************************************************************)
C14_EmptyStructureError ==
    Done /\ component # None =>
        /\ StepsOf(component) = {} <=> result = Raised("EmptyStructureError")
        /\ StepsOf(component) # {} =>
               result.kind = "return" /\ result.value \in StepsOf(component)

(***************************************************************************)
(* C14, amended: get_endpoint fails with ValueError exactly when the       *)
(* structure contains no step (an empty Series or Parallel, or one whose   *)
(* members all lack an endpoint), and for every structure with at least    *)
(* one step it returns a step of that structure.                           *)
(***************************************************************************)
C14_ValueError ==
    Done /\ component # None =>
        /\ StepsOf(component) = {} <=> result = Raised("ValueError")
        /\ StepsOf(component) # {} =>
               result.kind = "return" /\ result.value \in StepsOf(component)

\* a Parallel with a member that has no endpoint and a member that has one
C14_Witness ==
    /\ Done /\ IsParallel(component)
    /\ \E m \in component.root : IsSeries(m) /\ StepsOf(m) = {}
    /\ \E m \in component.root : StepsOf(m) # {}
    /\ result.kind = "return"

\* a Series whose children all lack an endpoint
C14_WitnessRaise ==
    /\ Done /\ IsSeries(component) /\ len(component) > 0
    /\ result = Raised("ValueError")

(***************************************************************************)
(* C19: partitioning a Parallel group whose members do not together touch  *)
(* both the prerequisite and the postrequisite zone returns the whole      *)
(* Parallel unchanged in a single zone (the prerequisite zone if a member  *)
(* has a prerequisite part, else the postrequisite zone if a member has a  *)
(* postrequisite part, else the nondependent zone), with                   *)
(* top_ranked_endpoint the smallest of the members' top_ranked_endpoints,  *)
(* and with an empty instruction list.                                     *)
(***************************************************************************)
\* the partitions of the members of the Parallel being partitioned
MemberPartitions ==
    {partition_component(m, predecessor, prerequisites, postrequisites, seed).part :
        m \in component.root}

AnyPrerequisites == \E q \in MemberPartitions : q.prerequisite_component # None
AnyPostrequisites == \E q \in MemberPartitions : q.postrequisite_component # None
MinEndpoint == Min({q.top_ranked_endpoint : q \in MemberPartitions})

C19_HomogeneousParallelKeptWhole ==
    Done /\ IsParallel(component) /\ ~(AnyPrerequisites /\ AnyPostrequisites) =>
        /\ result.part =
             IF AnyPrerequisites THEN Partition(component, None, None, MinEndpoint)
             ELSE IF AnyPostrequisites THEN Partition(None, None, component, MinEndpoint)
             ELSE Partition(None, component, None, MinEndpoint)
        /\ result.ins = <<>>

(***************************************************************************)
(* C20: series merge, prerequisite case: when next_partition has a         *)
(* prerequisite zone, the prerequisite zone of the merged partition is the *)
(* concatenation, in this order, of the prerequisite, nondependent and     *)
(* postrequisite zones of the accumulated partition and the prerequisite   *)
(* zone of next_partition; its nondependent and postrequisite zones and    *)
(* its top_ranked_endpoint are those of next_partition; no step is lost or *)
(* duplicated.                                                             *)
(***************************************************************************)
\* the items a zone contributes to a series: its children if it is a Series
ItemsOf(zone) ==
    IF zone = None THEN <<>> ELSE IF IsSeries(zone) THEN zone.root ELSE <<zone>>

RECURSIVE Occurrences(_, _)
\* how often the step s occurs in a structure
Occurrences(c, s) ==
    IF c = None THEN 0
    ELSE IF IsStr(c) THEN (IF c.step = s THEN 1 ELSE 0)
    ELSE IF IsSeries(c)
    THEN IF c.root = <<>> THEN 0
         ELSE Occurrences(Head(c.root), s) + Occurrences(Series(Tail(c.root)), s)
    ELSE IF c.root = {} THEN 0
         ELSE LET m == CHOOSE x \in c.root : TRUE
              IN  Occurrences(m, s) + Occurrences(Parallel(c.root \ {m}), s)

\* how often the step s occurs in the zones of a partition
OccurrencesIn(q, s) ==
    Occurrences(q.prerequisite_component, s)
    + Occurrences(q.nondependent_component, s)
    + Occurrences(q.postrequisite_component, s)

C20_SeriesMergePrerequisiteCase ==
    Done /\ next_partition # None /\ next_partition.prerequisite_component # None =>
        /\ IsSeries(result.prerequisite_component)
        /\ result.prerequisite_component.root =
               ItemsOf(partition.prerequisite_component)
               \o ItemsOf(partition.nondependent_component)
               \o ItemsOf(partition.postrequisite_component)
               \o ItemsOf(next_partition.prerequisite_component)
        /\ result.nondependent_component = next_partition.nondependent_component
        /\ result.postrequisite_component = next_partition.postrequisite_component
        /\ result.top_ranked_endpoint = next_partition.top_ranked_endpoint
        /\ \A s \in Names :
               OccurrencesIn(result, s)
                   = OccurrencesIn(partition, s) + OccurrencesIn(next_partition, s)

\* the accumulated partition has all three zones, one of them a Series
C20_Witness ==
    /\ Done /\ next_partition # None
    /\ next_partition.prerequisite_component # None
    /\ partition.prerequisite_component # None
    /\ partition.nondependent_component # None
    /\ partition.postrequisite_component # None
    /\ Len(result.prerequisite_component.root) = 4

(***************************************************************************)
(* C16: nesting does not accumulate: in a chain of add calls, each on the  *)
(* solution of the call before, the container nesting depth of a solution  *)
(* never exceeds the nesting depth of the first pipeline plus one.         *)
(***************************************************************************)
Max(S) == CHOOSE x \in S : \A y \in S : y <= x

RECURSIVE Depth(_)
\* the number of containers around the most deeply nested place of a structure
Depth(c) ==
    IF IsStr(c) THEN 0
    ELSE IF IsSeries(c)
    THEN 1 + Max({0} \cup {Depth(c.root[i]) : i \in DOMAIN c.root})
    ELSE 1 + Max({0} \cup {Depth(x) : x \in c.root})

C16_NestingDoesNotAccumulate ==
    Done /\ calls >= 1 => Depth(solution) <= Depth(first_pipeline) + 1

\* the last call of a chain got a pipeline already one deeper than the first,
\* and put the step beside others of a Parallel at that depth
C16_Witness ==
    /\ Done /\ calls = MaxCalls
    /\ Depth(pipeline) = Depth(first_pipeline) + 1
    /\ Depth(solution) = Depth(first_pipeline) + 1
    /\ step \in StepsOf(solution)
    /\ StepsOf(pipeline) # StepsOf(first_pipeline)
    /\ instructions # <<>>
    /\ LastInstruction.op = "InsertParallel"

(***************************************************************************)
(* C15: a dependency group is a supported element of the pipeline of add:  *)
(* when one member of a DepGroup is a prerequisite and a later member is a *)
(* postrequisite, add returns a solution in which two DepGroups of the     *)
(* same config_group stand around the new step, the first with the         *)
(* prerequisite and the second with the postrequisite.                     *)
(***************************************************************************)
RECURSIVE DepGroupsIn(_)
\* the dependency groups of a structure
DepGroupsIn(c) ==
    IF IsStr(c) THEN {}
    ELSE IF IsDepGroup(c) THEN {c}
    ELSE IF IsSeries(c) THEN UNION {DepGroupsIn(c.root[i]) : i \in DOMAIN c.root}
    ELSE UNION {DepGroupsIn(x) : x \in c.root}

\* the member at i of the dependency group is a prerequisite, the one at j a
\* postrequisite
Straddles(group, i, j) ==
    /\ i \in DOMAIN group.series.root /\ j \in DOMAIN group.series.root
    /\ i < j
    /\ group.series.root[i].step \in prerequisites
    /\ group.series.root[j].step \in postrequisites

RECURSIVE SplitAround(_, _, _, _, _)
\* some Series of c holds, in this order, a DepGroup g with b, the step s and
\* a DepGroup g with d
SplitAround(c, g, b, s, d) ==
    IF IsStr(c) \/ IsDepGroup(c) THEN FALSE
    ELSE IF IsParallel(c) THEN \E x \in c.root : SplitAround(x, g, b, s, d)
    ELSE \/ \E i, j, k \in DOMAIN c.root :
              /\ i < j /\ j < k
              /\ IsDepGroup(c.root[i]) /\ c.root[i].config_group = g
              /\ b \in AllStepsOf(c.root[i])
              /\ c.root[j] = Atom(s)
              /\ IsDepGroup(c.root[k]) /\ c.root[k].config_group = g
              /\ d \in AllStepsOf(c.root[k])
         \/ \E i \in DOMAIN c.root : SplitAround(c.root[i], g, b, s, d)

C15_DepGroupSplit ==
    Done =>
        \A group \in DepGroupsIn(pipeline) :
            \A i, j \in DOMAIN group.series.root :
                Straddles(group, i, j) =>
                    /\ result.kind = "return"
                    /\ SplitAround(result.value.solution, group.config_group,
                                   group.series.root[i].step, step,
                                   group.series.root[j].step)

(***************************************************************************)
(* C17: add_step_in_default is idempotent: when the default pipeline holds *)
(* a step equivalent to the given one (the same name, or the same script   *)
(* and caches under another name) the call returns and the file is as it   *)
(* was: no step, cache or script definition is added; and whatever calls   *)
(* are made, no two steps of the default pipeline have the same name.      *)
(***************************************************************************)
SameStep(x, y) == x.name = y.name \/ (x.script = y.script /\ x.caches = y.caches)

\* the default pipeline of the file d holds a step that is the same as s
InDefault(d, s) ==
    d.exists /\ \E i \in DOMAIN StepsOfItems(d.items) : SameStep(StepsOfItems(d.items)[i], s)

UniqueNames(d) ==
    \A i, j \in DOMAIN StepsOfItems(d.items) :
        i # j => StepsOfItems(d.items)[i].name # StepsOfItems(d.items)[j].name

C17_AddStepIdempotent ==
    /\ [][pc' = "add_step_in_default" /\ InDefault(doc, new_step')
              => doc' = doc /\ result' = Returned(None)]_vars
    /\ [](UniqueNames(doc))

\* the call returned early for a step whose name one step of the file has,
\* with other contents, and whose contents another step of the file has
C17_Witness ==
    /\ pc = "add_step_in_default"
    /\ result = Returned(None)
    /\ \E i, j \in DOMAIN StepsOfItems(doc.items) :
           LET x == StepsOfItems(doc.items)[i]
               y == StepsOfItems(doc.items)[j]
           IN  /\ x.name = new_step.name /\ x.script # new_step.script
               /\ y.name # new_step.name /\ y.script = new_step.script
                                         /\ y.caches = new_step.caches

(***************************************************************************)
(* C18: the default pipeline is never left empty and the placeholder never *)
(* stays beside real steps: when remove_step_from_default removes the last *)
(* remaining step, the pipeline then holds exactly the placeholder step;   *)
(* when add_step_in_default adds a step other than the placeholder, the    *)
(* placeholder is then not in the pipeline.                                *)
(***************************************************************************)
\* the call removes every step the default pipeline has
RemovesLastStep ==
    /\ pc' = "remove_step_from_default"
    /\ doc.exists /\ doc.items # <<>>
    /\ \A i \in DOMAIN StepsOfItems(doc.items) :
           SameStep(StepsOfItems(doc.items)[i], new_step')

\* the call adds a step that is not the placeholder
AddsRealStep ==
    /\ pc' = "add_step_in_default"
    /\ ~SameStep(new_step', _get_placeholder_step)
    /\ ~InDefault(doc, new_step')
    /\ \E i \in DOMAIN StepsOfItems(doc'.items) : StepsOfItems(doc'.items)[i] = new_step'

C18_PlaceholderRestoredAndRemoved ==
    [][/\ RemovesLastStep =>
            /\ result'.kind = "return"
            /\ StepsOfItems(doc'.items) = <<_get_placeholder_step>>
       /\ AddsRealStep =>
            \A i \in DOMAIN StepsOfItems(doc'.items) :
                StepsOfItems(doc'.items)[i].name # _PLACEHOLDER_NAME]_vars

(***************************************************************************)
(* C21: series merge, postrequisite-absorption case: when next_partition   *)
(* has no prerequisite zone but has a nondependent zone and the            *)
(* accumulated partition has a postrequisite zone, the postrequisite zone  *)
(* of the merged partition is the accumulated postrequisite zone followed  *)
(* by the nondependent and then the postrequisite zone of next_partition,  *)
(* and its nondependent zone is the accumulated one; and in the flattened  *)
(* partition of a Series no step that followed a postrequisite in the      *)
(* Series comes before that postrequisite.                                 *)
(***************************************************************************)
\* the partitions of the children of the Series being partitioned
ChildPartitions ==
    _get_series_partitions(component.root, 1, predecessor,
                           prerequisites, postrequisites, seed).parts

\* the partition accumulated by reduce over the first i children
Accumulated(parts, i) == Reduce(parts[1], SubSeq(parts, 1, i), 2)

\* next_partition is absorbed into the postrequisite zone of partition
Absorbs(acc, nxt) ==
    /\ nxt.prerequisite_component = None
    /\ nxt.nondependent_component # None
    /\ acc.postrequisite_component # None

C21_SeriesMergeAbsorptionCase ==
    Done /\ component # None /\ IsSeries(component) =>
        \A parts \in {ChildPartitions} :
            /\ \A i \in 1 .. (Len(parts) - 1) :
                   \A acc \in {Accumulated(parts, i)} :
                       Absorbs(acc, parts[i + 1]) =>
                           \A merged \in {_op_series_merge_partitions(acc, parts[i + 1])} :
                               /\ IsSeries(merged.postrequisite_component)
                               /\ merged.postrequisite_component.root =
                                      ItemsOf(acc.postrequisite_component)
                                      \o ItemsOf(parts[i + 1].nondependent_component)
                                      \o ItemsOf(parts[i + 1].postrequisite_component)
                               /\ merged.nondependent_component
                                      = acc.nondependent_component
            /\ \A flat \in {_flatten_partition(result.part)} :
                   \A q \in postrequisites \cap StepsOf(component) :
                       \A x \in StepsOf(component) :
                           Before(component, q, x) => ~Before(flat, x, q)

\* a Series whose second or third child is absorbed after a postrequisite
C21_Witness ==
    /\ Done /\ component # None /\ IsSeries(component)
    /\ \E i \in 1 .. (Len(ChildPartitions) - 1) :
           /\ Absorbs(Accumulated(ChildPartitions, i), ChildPartitions[i + 1])
           /\ Accumulated(ChildPartitions, i).nondependent_component # None
    /\ \E q \in postrequisites : \E x \in StepsOf(component) :
           Before(component, q, x)

(***************************************************************************)
(* C22: parallel merge emits its instructions in zone order (prerequisite, *)
(* nondependent, postrequisite) as InsertSuccessor instructions; the first *)
(* instruction of each non-empty zone is anchored after the endpoint of    *)
(* the nearest preceding non-empty zone, or after the predecessor when     *)
(* there is none; and every step of every non-empty zone receives an       *)
(* instruction.                                                            *)
(***************************************************************************)
\* the zones of the partition q that are not None, in zone order
Zones(q) ==
    NotNone(<<q.prerequisite_component, q.nondependent_component,
              q.postrequisite_component>>)

\* the zone of q that holds the step s
ZoneOf(q, s) == CHOOSE k \in DOMAIN Zones(q) : s \in StepsOf(Zones(q)[k])

\* the Parallel being partitioned is resolved by _parallel_merge_partitions
ParallelMerged ==
    Done /\ component # None /\ IsParallel(component)
         /\ AnyPrerequisites /\ AnyPostrequisites

\* the instructions are InsertSuccessor instructions in zone order
C22_ZoneOrder ==
    /\ \A i \in DOMAIN result.ins : result.ins[i].op = "InsertSuccessor"
    /\ \A i, j \in DOMAIN result.ins :
           i < j => ZoneOf(result.part, result.ins[i].step)
                        <= ZoneOf(result.part, result.ins[j].step)

\* the first instruction of a zone is anchored after the zone before it
C22_ZoneAnchors ==
    \A i \in DOMAIN result.ins :
        \A k \in {ZoneOf(result.part, result.ins[i].step)} :
            (i = 1 \/ ZoneOf(result.part, result.ins[i - 1].step) # k) =>
                result.ins[i].after =
                    IF k = 1 THEN predecessor
                    ELSE get_endpoint(Zones(result.part)[k - 1], seed)

\* every step of every zone receives an instruction
C22_EveryStepInstructed ==
    \A s \in StepsOf(component) : \E i \in DOMAIN result.ins : result.ins[i].step = s

C22_ParallelMergeInstructions ==
    ParallelMerged => C22_ZoneOrder /\ C22_ZoneAnchors /\ C22_EveryStepInstructed

(***************************************************************************)
(* C23: insert-before-postrequisites decision: when the element after the  *)
(* anchor is an atom or a Parallel of several members, then if it holds a  *)
(* postrequisite at any depth the new step becomes a new element of the    *)
(* series directly before it and the one instruction returned is           *)
(* InsertSuccessor(after=anchor, step), and otherwise the element is       *)
(* replaced by its parallel union with the new step and the one            *)
(* instruction returned is InsertParallel(after=anchor, step).  In both    *)
(* cases the series passed in holds the new step afterwards, also when the *)
(* element is a Parallel of one member that is unwrapped for the decision. *)
(***************************************************************************)
\* the element after the anchor
successor_component == component.root[idx + 2]

\* an atom or a Parallel of several members
Decidable(e) == IsStr(e) \/ (IsParallel(e) /\ len(e) > 1)

\* a Parallel of one member, which is an atom or a Parallel of several members
Unwrapped(e) ==
    IsParallel(e) /\ len(e) = 1 /\ \A m \in e.root : Decidable(m)

\* the instruction the decision on e gives
Decision(e) ==
    IF _has_any_steps(e, postrequisites)
    THEN InsertSuccessor(predecessor, step)
    ELSE InsertParallel(predecessor, step)

C23_Decided ==
    Decidable(successor_component) =>
        /\ result.ins = <<Decision(successor_component)>>
        /\ result.root =
               IF _has_any_steps(successor_component, postrequisites)
               THEN InsertAt(component.root, idx + 2, Atom(step))
               ELSE Replace(component.root, idx + 2,
                            _union(<<successor_component, Atom(step)>>))
        /\ step \in StepsOf(Series(result.root))

C23_DecidedUnwrapped ==
    Unwrapped(successor_component) =>
        /\ \A m \in successor_component.root : result.ins = <<Decision(m)>>
        /\ step \in StepsOf(Series(result.root))

C23_InsertBeforePostrequisites ==
    Done /\ component # None /\ idx >= -1 /\ step # NoStep =>
        C23_Decided /\ C23_DecidedUnwrapped

(***************************************************************************)
(* C24: locality of a nested insertion: when the only prerequisite p       *)
(* present in the pipeline is a non-last atom of a Series that is a member *)
(* of a Parallel group, add returns exactly [InsertParallel(after=p,       *)
(* step=s)] and a solution that differs from the pipeline only in that the *)
(* element after p in that Series is replaced by its parallel union with   *)
(* s.                                                                      *)
(***************************************************************************)
RECURSIVE Substituted(_, _, _)
\* the structure c with its part old replaced by new
Substituted(c, old, new) ==
    IF c = old THEN new
    ELSE IF IsStr(c) THEN c
    ELSE IF IsSeries(c)
    THEN Series([i \in DOMAIN c.root |-> Substituted(c.root[i], old, new)])
    ELSE Parallel({Substituted(m, old, new) : m \in c.root})

\* p is the only prerequisite in the pipeline, at position i of the nested
\* Series n, which has an element after it
NestedAnchor(n, i) ==
    /\ n \in NestedSeries(pipeline)
    /\ i \in 1 .. (Len(n.root) - 1)
    /\ IsStr(n.root[i])
    /\ prerequisites \cap Existing = {n.root[i].step}

\* the members of the parallel union of the element e with the new step
UnitedMembers(e) == (IF IsParallel(e) THEN e.root ELSE {e}) \cup {Atom(step)}

\* the nested Series n with the element after position i united with step
United(n, i) ==
    Series([n.root EXCEPT ![i + 1] = Parallel(UnitedMembers(n.root[i + 1]))])

\* the claim as stated
C24_NestedInsertionIsLocalAlways ==
    Done /\ pipeline # None /\ calls = 1 =>
        \A n \in NestedSeries(pipeline) : \A i \in DOMAIN n.root :
            NestedAnchor(n, i) =>
                /\ instructions = <<InsertParallel(n.root[i].step, step)>>
                /\ solution = Substituted(pipeline, n, United(n, i))

\* no top-level element of the pipeline is a Series, which add would splice
\* into the top level
TopLevelSpliced == \A k \in DOMAIN pipeline.root : ~IsSeries(pipeline.root[k])

\* the claim for pipelines without a postrequisite: the instruction is as
\* stated, and the solution is as stated when no top-level element is a
\* Series and the element after p is an atom or a Parallel of several members
C24_NestedInsertionIsLocal ==
    Done /\ pipeline # None /\ calls = 1 /\ postrequisites \cap Existing = {} =>
        \A n \in NestedSeries(pipeline) : \A i \in DOMAIN n.root :
            NestedAnchor(n, i) =>
                /\ instructions = <<InsertParallel(n.root[i].step, step)>>
                /\ TopLevelSpliced /\ Decidable(n.root[i + 1]) =>
                       solution = Substituted(pipeline, n, United(n, i))

\* the element after p is a Parallel of several members, beside another branch
C24_Witness ==
    /\ Done /\ pipeline # None /\ calls = 1 /\ postrequisites \cap Existing = {}
    /\ TopLevelSpliced
    /\ \E n \in NestedSeries(pipeline) : \E i \in DOMAIN n.root :
           /\ NestedAnchor(n, i)
           /\ IsParallel(n.root[i + 1]) /\ len(n.root[i + 1]) > 1
           /\ step \in StepsOf(solution)

(***************************************************************************)
(* C25: a step whose name is not in _STEP_ORDER is added at the end of the *)
(* default pipeline: whatever the steps of the pipeline, once the step has *)
(* been added it is the last item of the pipeline.                         *)
(***************************************************************************)
Unrecognized(s) == \A i \in DOMAIN _STEP_ORDER : _STEP_ORDER[i] # s.name

C25_UnrecognizedStepGoesLast ==
    Done /\ new_step # None /\ Unrecognized(new_step) =>
        /\ doc.items # <<>>
        /\ doc.items[Len(doc.items)] = StepItem(new_step)

(***************************************************************************)
(* C26: the new step is always in the solution: for every pipeline with    *)
(* unique step names that does not hold the step, and every prerequisites  *)
(* and postrequisites, the solution returned by add holds the step exactly *)
(* once.                                                                   *)
(***************************************************************************)
C26_StepInSolution ==
    Done /\ pipeline # None /\ calls = 1 => Occurrences(solution, step) = 1

(***************************************************************************)
(* C27: step conservation: for every pipeline with unique step names and   *)
(* every call of add, each step of the pipeline occurs exactly once in the *)
(* solution, and the solution holds no step other than those of the        *)
(* pipeline and the new step.                                              *)
(***************************************************************************)
C27_StepConservation ==
    Done /\ pipeline # None /\ calls = 1 =>
        /\ \A x \in Existing : Occurrences(solution, x) = 1
        /\ StepsOf(solution) \subseteq Existing \cup {step}

\* a call that splits a Parallel group into zones and merges them again
C27_Witness ==
    /\ Done /\ pipeline # None /\ calls = 1
    /\ Cardinality(Existing) = MaxSteps
    /\ \E k \in DOMAIN pipeline.root :
           /\ IsParallel(pipeline.root[k])
           /\ StepsOf(pipeline.root[k]) \cap prerequisites # {}
           /\ StepsOf(pipeline.root[k]) \cap postrequisites # {}
           /\ StepsOf(pipeline.root[k]) \ (prerequisites \cup postrequisites) # {}
    /\ Len(instructions) > 1
    /\ Len(solution.root) >= MaxSteps

(***************************************************************************)
(* C28: for every non-empty pipeline with unique step names that does not  *)
(* hold the new step, the instruction list returned by add holds exactly   *)
(* one instruction whose step is the new step, that instruction is the     *)
(* last one, the step of every other instruction is a step of the          *)
(* pipeline, and the after anchor of every instruction is None or a step   *)
(* of the pipeline.                                                        *)
(***************************************************************************)
C28_InstructionsWellFormed ==
    Done /\ pipeline # None /\ calls = 1 /\ NonEmpty =>
        /\ Cardinality({k \in DOMAIN instructions : instructions[k].step = step}) = 1
        /\ instructions # <<>> /\ LastInstruction.step = step
        /\ \A k \in 1 .. (Len(instructions) - 1) : instructions[k].step \in Existing
        /\ \A k \in DOMAIN instructions :
               instructions[k].after \in {NoStep} \cup Existing

\* instructions that re-sequence steps of the pipeline come before the last
C28_Witness ==
    /\ Done /\ pipeline # None /\ calls = 1 /\ NonEmpty
    /\ Len(instructions) > 2
    /\ LastInstruction.after # NoStep
    /\ \E k \in DOMAIN instructions : instructions[k].after = NoStep

(***************************************************************************)
(* C29: determinism of add: the solution and the instruction list are a    *)
(* function of the arguments only and do not depend on the order in which  *)
(* the members of a Parallel are enumerated: under every enumeration order *)
(* add returns the same instructions and an equal solution.                *)
(***************************************************************************)
C29_Deterministic ==
    Done /\ pipeline # None /\ calls = 1 =>
        \A sd \in Seeds(pipeline) :
            add(pipeline, step, prerequisites, postrequisites, sd) = result

(***************************************************************************)
(* C30: instructions produced while partitioning nested components are     *)
(* never discarded: every instruction returned by the recursive partition  *)
(* of a member of a Parallel or of a child of a Series is in the           *)
(* instruction list returned by the enclosing partition, also when the     *)
(* enclosing Parallel is itself resolved by parallel merge.                *)
(***************************************************************************)
\* the instructions returned by the recursive partitions of the members of
\* the Parallel, or of the children of the Series, being partitioned
NestedInstructions ==
    IF IsParallel(component)
    THEN UNION {Range(partition_component(m, predecessor, prerequisites,
                                          postrequisites, seed).ins) :
                    m \in component.root}
    ELSE Range(_get_series_partitions(component.root, 1, predecessor,
                                      prerequisites, postrequisites, seed).ins)

C30_NestedInstructionsKept ==
    Done /\ ~IsStr(component) => NestedInstructions \subseteq Range(result.ins)

====
